---- MODULE Spec2Model ----
(***************************************************************************)
(* A model of the GPS EXIF batch-transfer engine of src/src/libs/main.py.   *)
(*                                                                         *)
(* One call of transfer_gps_data_batch is a state machine over a small     *)
(* file system.  Paths are sequences of characters, so that the format     *)
(* classifier and the backup path are computed from the path as the code   *)
(* computes them.  A file is a container format together with its EXIF      *)
(* blob; the EXIF codec (piexif) and the image library (PIL) are modelled   *)
(* by what the calls made in main.py do to such files.  Strings that the    *)
(* code builds (messages, error causes) are sequences of string pieces      *)
(* whose concatenation is the Python string.                                *)
(***************************************************************************)
EXTENDS Integers, Sequences, FiniteSets, TLC

VARIABLES
    fs,                \* the file system: path -> file or NoFile
    fs0,               \* the file system when the call began (never changed)
    unwritable,        \* paths whose creation or rewriting raises OSError
    arg,               \* the argument of a helper called on its own
    ret,               \* what that helper returned, None before the call
    batch,             \* which call of the batch function this is: 1 or 2
    ui,                \* the window of src/src/ui/main.py, NoUi when the engine is called directly
    HEIF_SUPPORTED,    \* main.py:9-15, whether pillow_heif could be imported
    source_path,       \* argument of the call
    target_paths,      \* argument of the call
    options,           \* argument of the call (None or a dict)
    progress_callback, \* argument of the call: absent, or how the callable behaves
    pc,                \* position inside transfer_gps_data_batch
    idx,               \* loop index of enumerate(target_paths), 0-based
    results,           \* the results dict
    gps_data,          \* local: GPS group of the source
    date_data,         \* local: extracted date sub-mapping or None
    calls,             \* history: the calls made to progress_callback
    events,            \* history: what was done to which target index
    seen,              \* history: each target's file when it was taken up
    outcome            \* history: how the call went

vars == <<fs, fs0, unwritable, arg, ret, batch, ui, HEIF_SUPPORTED, source_path,
          target_paths, options, progress_callback, pc, idx, results, gps_data,
          date_data, calls, events, seen, outcome>>

\* Bound of the model: the longest target list tried.
MaxTargets == 2

\* Python's None and a present value, for the variables that may hold None.
None == [isNone |-> TRUE]

Some(v) == [isNone |-> FALSE, val |-> v]

\* An absent file, and the empty byte string b"".
NoFile == [exists |-> FALSE]

\* No window: the engine is called directly.
NoUi == [open |-> FALSE]

EmptyBytes == [kind |-> "empty"]

\* The empty dict {}.
EmptyMap == [t \in {} |-> 0]

(***************************************************************************)
(* Tag identifiers used by main.py.                                         *)
(***************************************************************************)
DateTimeOriginal == 36867
DateTimeDigitized == 36868
OffsetTime == 36880
OffsetTimeOriginal == 36881
OffsetTimeDigitized == 36882
DateTime == 306
\* Tags of the GPS group read by the tests.
GPSLatitudeRef == 1
GPSLatitude == 2
GPSLongitudeRef == 3
GPSLongitude == 4
\* Pointer tags the codec keeps in the 0th group for the Exif and GPS groups.
ExifTag == 34665
GPSTag == 34853
\* Two tags main.py never names, to observe what a write leaves alone.
Make == 271
ExposureTime == 33434

Groups == {"0th", "Exif", "GPS", "1st"}

\* The dict main.py:420 builds for a container without EXIF; piexif.load
\* returns the same for a JPEG without an EXIF segment.
EmptyExifDict == [g \in Groups |-> EmptyMap]

(***************************************************************************)
(* Small helpers on finite maps (Python dicts).                             *)
(***************************************************************************)
Put(m, k, v) == [x \in (DOMAIN m) \cup {k} |-> IF x = k THEN v ELSE m[x]]

Drop(m, k) == [x \in (DOMAIN m) \ {k} |-> m[x]]

\* dict.get(key, default)
Get(d, k, default) == IF k \in DOMAIN d THEN d[k] ELSE default

(***************************************************************************)
(* Paths.                                                                   *)
(***************************************************************************)
LowerTable ==
    [c \in {"A","B","C","D","E","F","G","H","I","J","K","L","M","N","O","P",
            "Q","R","S","T","U","V","W","X","Y","Z"} |->
        CASE c = "A" -> "a" [] c = "B" -> "b" [] c = "C" -> "c" [] c = "D" -> "d"
          [] c = "E" -> "e" [] c = "F" -> "f" [] c = "G" -> "g" [] c = "H" -> "h"
          [] c = "I" -> "i" [] c = "J" -> "j" [] c = "K" -> "k" [] c = "L" -> "l"
          [] c = "M" -> "m" [] c = "N" -> "n" [] c = "O" -> "o" [] c = "P" -> "p"
          [] c = "Q" -> "q" [] c = "R" -> "r" [] c = "S" -> "s" [] c = "T" -> "t"
          [] c = "U" -> "u" [] c = "V" -> "v" [] c = "W" -> "w" [] c = "X" -> "x"
          [] c = "Y" -> "y" [] c = "Z" -> "z"]

\* str.lower()
Lower(s) == [i \in 1..Len(s) |-> IF s[i] \in DOMAIN LowerTable THEN LowerTable[s[i]] ELSE s[i]]

\* str.rfind(c), 1-based, 0 when c does not occur
Rfind(s, c) == IF \E i \in 1..Len(s) : s[i] = c
               THEN CHOOSE i \in 1..Len(s) : s[i] = c /\ \A j \in (i+1)..Len(s) : s[j] # c
               ELSE 0

\* os.path.splitext(p)[1]: the suffix from the last dot of the last path
\* component, unless that component has only dots before it.
SplitExt(p) ==
    LET sepIndex == Rfind(p, "/")
        dotIndex == Rfind(p, ".")
    IN  IF dotIndex > sepIndex /\ \E k \in (sepIndex+1)..(dotIndex-1) : p[k] # "."
        THEN SubSeq(p, dotIndex, Len(p))
        ELSE <<>>

\* os.path.basename(p)
Basename(p) == SubSeq(p, Rfind(p, "/") + 1, Len(p))

\* Mutant: the extension is compared as written.
_is_heic_CaseSensitive(file_path) ==
    SplitExt(file_path) \in {<<".", "h", "e", "i", "c">>, <<".", "h", "e", "i", "f">>}

_is_heic(file_path) ==
    LET ext == Lower(SplitExt(file_path))
    IN  ext \in {<<".", "h", "e", "i", "c">>, <<".", "h", "e", "i", "f">>}

\* f"{file_path}.backup"
BackupPath(file_path) == file_path \o <<".", "b", "a", "c", "k", "u", "p">>

(***************************************************************************)
(* Outcomes of calls that may raise.                                        *)
(***************************************************************************)
Ok(v) == [ok |-> TRUE, val |-> v]

Raise(e) == [ok |-> FALSE, err |-> e]

(***************************************************************************)
(* The EXIF codec.  A blob is b"", bytes that do not parse, or a            *)
(* serialized tag mapping.  piexif.dump records in the 0th group a pointer  *)
(* tag for each of the Exif and GPS groups it writes and removes the        *)
(* pointer of a group it does not write; piexif.load returns the 0th group  *)
(* with these pointers in it.                                               *)
(***************************************************************************)
WithPointer(zeroth, tag, group) ==
    IF group # EmptyMap THEN Put(zeroth, tag, "offset") ELSE Drop(zeroth, tag)

\* piexif.dump(exif_dict)
piexif_dump(exif_dict) ==
    LET g(name) == Get(exif_dict, name, EmptyMap)
        zeroth == WithPointer(WithPointer(g("0th"), ExifTag, g("Exif")), GPSTag, g("GPS"))
    IN  [kind |-> "exif",
         ifd |-> [n \in Groups |-> IF n = "0th" THEN zeroth ELSE g(n)]]

\* piexif.load(data) for a bytes argument.  b"" is taken for a file name
\* and open() raises.
piexif_load_bytes(data) ==
    CASE data.kind = "exif" -> Ok(data.ifd)
      [] data.kind = "empty" -> Raise(<<"[Errno 2] No such file or directory: b''">>)
      [] OTHER -> Raise(<<"Given data isn't JPEG or TIFF.">>)

\* Mutant: a JPEG without an EXIF segment is refused.
piexif_load_RefusesNoExif(fsys, path) ==
    LET f == fsys[path]
    IN  CASE ~f.exists -> Raise(<<"[Errno 2] No such file or directory: ">> \o path)
          [] f.fmt # "jpeg" -> Raise(<<"Given file is neither JPEG nor TIFF.">>)
          [] f.exif.kind = "empty" -> Raise(<<"no EXIF segment">>)
          [] OTHER -> piexif_load_bytes(f.exif)

\* piexif.load(path): a missing file and a file that is no JPEG raise; a
\* JPEG without an EXIF segment gives the dict of empty groups.
piexif_load(fsys, path) ==
    LET f == fsys[path]
    IN  CASE ~f.exists -> Raise(<<"[Errno 2] No such file or directory: ">> \o path)
          [] f.fmt # "jpeg" -> Raise(<<"Given file is neither JPEG nor TIFF.">>)
          [] f.exif.kind = "empty" -> Ok(EmptyExifDict)
          [] OTHER -> piexif_load_bytes(f.exif)

\* piexif.insert(exif_bytes, path): rewrites the EXIF segment of a JPEG.
piexif_insert(fsys, unw, exif_bytes, path) ==
    LET f == fsys[path]
    IN  CASE ~f.exists -> Raise(<<"[Errno 2] No such file or directory: ">> \o path)
          [] f.fmt # "jpeg" -> Raise(<<"Given file is neither JPEG nor TIFF.">>)
          [] path \in unw -> Raise(<<"[Errno 13] Permission denied: ">> \o path)
          [] OTHER -> Ok([fsys EXCEPT ![path] = [f EXCEPT !.exif = exif_bytes]])

(***************************************************************************)
(* The image library.                                                       *)
(***************************************************************************)
\* Image.open(path): the image with img.info["exif"].  A HEIF container
\* opens only when the HEIF opener is registered.
Image_open(fsys, heif, path) ==
    LET f == fsys[path]
    IN  CASE ~f.exists -> Raise(<<"[Errno 2] No such file or directory: ">> \o path)
          [] f.fmt = "junk" -> Raise(<<"cannot identify image file ">> \o path)
          [] f.fmt = "heif" /\ ~heif -> Raise(<<"cannot identify image file ">> \o path)
          [] OTHER -> Ok([info_exif |-> f.exif])

\* img.save(path, exif=exif_bytes): the format follows the extension.
Image_save(fsys, unw, heif, path, exif_bytes) ==
    CASE _is_heic(path) /\ ~heif -> Raise(<<"unknown file extension: ">> \o SplitExt(path))
      [] path \in unw -> Raise(<<"[Errno 13] Permission denied: ">> \o path)
      [] OTHER -> Ok([fsys EXCEPT ![path] =
                        [exists |-> TRUE,
                         fmt |-> IF _is_heic(path) THEN "heif" ELSE "jpeg",
                         exif |-> exif_bytes]])

\* Mutant: a file already at the destination is kept.
copy2_KeepsExisting(fsys, unw, src, dst) ==
    CASE ~fsys[src].exists -> Raise(<<"[Errno 2] No such file or directory: ">> \o src)
      [] dst \in unw -> Raise(<<"[Errno 13] Permission denied: ">> \o dst)
      [] fsys[dst].exists -> Ok(fsys)
      [] OTHER -> Ok([fsys EXCEPT ![dst] = fsys[src]])

\* shutil.copy2(src, dst)
copy2(fsys, unw, src, dst) ==
    CASE ~fsys[src].exists -> Raise(<<"[Errno 2] No such file or directory: ">> \o src)
      [] dst \in unw -> Raise(<<"[Errno 13] Permission denied: ">> \o dst)
      [] OTHER -> Ok([fsys EXCEPT ![dst] = fsys[src]])

(***************************************************************************)
(* The helpers of main.py.                                                  *)
(***************************************************************************)
\* Python truthiness of an optional dict: None and {} are false.
Truthy(opt) == ~opt.isNone /\ opt.val # EmptyMap

ExifDateTags == {DateTimeOriginal, DateTimeDigitized, OffsetTime,
                 OffsetTimeOriginal, OffsetTimeDigitized}

\* Mutant: a probe that raises resolves to True.
ProbeHasGps_ErrorSkips(fsys, heif, file_path) ==
    IF _is_heic(file_path)
    THEN LET img == Image_open(fsys, heif, file_path)
         IN  IF ~img.ok THEN TRUE
             ELSE IF img.val.info_exif = EmptyBytes THEN FALSE
             ELSE LET exif_dict == piexif_load_bytes(img.val.info_exif)
                  IN  ~exif_dict.ok \/ Get(exif_dict.val, "GPS", EmptyMap) # EmptyMap
    ELSE LET exif_dict == piexif_load(fsys, file_path)
         IN  ~exif_dict.ok \/ Get(exif_dict.val, "GPS", EmptyMap) # EmptyMap

\* main.py:32-45: the probe of the target's GPS group; any exception
\* resolves to False.
ProbeHasGps(fsys, heif, file_path) ==
    IF _is_heic(file_path)
    THEN LET img == Image_open(fsys, heif, file_path)
         IN  IF ~img.ok THEN FALSE
             ELSE IF img.val.info_exif = EmptyBytes THEN FALSE
             ELSE LET exif_dict == piexif_load_bytes(img.val.info_exif)
                  IN  exif_dict.ok /\ Get(exif_dict.val, "GPS", EmptyMap) # EmptyMap
    ELSE LET exif_dict == piexif_load(fsys, file_path)
         IN  exif_dict.ok /\ Get(exif_dict.val, "GPS", EmptyMap) # EmptyMap

\* Mutant: the probe runs whatever overwrite_gps says.
_should_skip_file_AlwaysProbe(fsys, heif, file_path, opts) ==
    ProbeHasGps(fsys, heif, file_path)

_should_skip_file(fsys, heif, file_path, opts) ==
    IF Get(opts, "overwrite_gps", TRUE)
    THEN FALSE
    ELSE ProbeHasGps(fsys, heif, file_path)

\* Mutant: no copy is made.
_create_backup_Noop(fsys, unw, file_path) == Ok(fsys)

\* Mutant: a copy that fails is passed over.
_create_backup_IgnoreFailure(fsys, unw, file_path) ==
    LET copied == copy2(fsys, unw, file_path, BackupPath(file_path))
    IN  IF copied.ok THEN copied ELSE Ok(fsys)

\* Returns the file system with the backup in it, or raises OSError.
_create_backup(fsys, unw, file_path) ==
    LET backup_path == BackupPath(file_path)
        copied == copy2(fsys, unw, file_path, backup_path)
    IN  IF copied.ok THEN copied
        ELSE Raise(<<"Failed to create backup for ">> \o file_path \o <<": ">> \o copied.err)

_load_exif_from_heic(fsys, heif, file_path) ==
    LET img == Image_open(fsys, heif, file_path)
    IN  IF img.ok THEN piexif_load_bytes(img.val.info_exif) ELSE img

\* Mutant: without the final "if date_data else None".
_extract_date_data_KeepsEmpty(exif_dict) ==
    LET fromExif == IF "Exif" \in DOMAIN exif_dict
                    THEN ExifDateTags \cap DOMAIN exif_dict["Exif"]
                    ELSE {}
        fromZeroth == IF "0th" \in DOMAIN exif_dict /\ DateTime \in DOMAIN exif_dict["0th"]
                      THEN {DateTime}
                      ELSE {}
    IN  Some([tag \in fromExif \cup fromZeroth |->
                IF tag \in fromExif THEN exif_dict["Exif"][tag]
                ELSE exif_dict["0th"][tag]])

\* Mutant: the Make tag of the 0th group is carried as well.
_extract_date_data_CarriesMake(exif_dict) ==
    LET fromExif == IF "Exif" \in DOMAIN exif_dict
                    THEN ExifDateTags \cap DOMAIN exif_dict["Exif"]
                    ELSE {}
        fromZeroth == IF "0th" \in DOMAIN exif_dict
                      THEN {DateTime, Make} \cap DOMAIN exif_dict["0th"]
                      ELSE {}
        dates == [tag \in fromExif \cup fromZeroth |->
                        IF tag \in fromExif THEN exif_dict["Exif"][tag]
                        ELSE exif_dict["0th"][tag]]
    IN  IF dates # EmptyMap THEN Some(dates) ELSE None

_extract_date_data(exif_dict) ==
    LET fromExif == IF "Exif" \in DOMAIN exif_dict
                    THEN ExifDateTags \cap DOMAIN exif_dict["Exif"]
                    ELSE {}
        fromZeroth == IF "0th" \in DOMAIN exif_dict /\ DateTime \in DOMAIN exif_dict["0th"]
                      THEN {DateTime}
                      ELSE {}
        dates == [tag \in fromExif \cup fromZeroth |->
                        IF tag \in fromExif THEN exif_dict["Exif"][tag]
                        ELSE exif_dict["0th"][tag]]
    IN  IF dates # EmptyMap THEN Some(dates) ELSE None

\* Mutant: every date tag, DateTime included, is assigned in the Exif group.
_apply_date_data_AllToExif(exif_dict, dates) ==
    IF dates.isNone \/ dates.val = EmptyMap
    THEN exif_dict
    ELSE LET d == dates.val
             oldExif == IF "Exif" \in DOMAIN exif_dict THEN exif_dict["Exif"] ELSE EmptyMap
         IN  [n \in (DOMAIN exif_dict) \cup {"Exif", "0th"} |->
                CASE n = "Exif" -> [t \in (DOMAIN oldExif) \cup DOMAIN d |->
                                      IF t \in DOMAIN d THEN d[t] ELSE oldExif[t]]
                  [] n \in DOMAIN exif_dict -> exif_dict[n]
                  [] OTHER -> EmptyMap]

\* Mutant: the Exif group is replaced by the date tags.
_apply_date_data_ReplacesExif(exif_dict, dates) ==
    IF ~Truthy(dates)
    THEN exif_dict
    ELSE LET d == dates.val
             toExif == ExifDateTags \cap DOMAIN d
             toZeroth == {DateTime} \cap DOMAIN d
             oldZeroth == Get(exif_dict, "0th", EmptyMap)
         IN  [n \in (DOMAIN exif_dict) \cup {"Exif", "0th"} |->
                CASE n = "Exif" -> [t \in toExif |-> d[t]]
                  [] n = "0th" -> [t \in (DOMAIN oldZeroth) \cup toZeroth |->
                                    IF t \in toZeroth THEN d[t] ELSE oldZeroth[t]]
                  [] OTHER -> exif_dict[n]]

\* The dict after the in-place update.
_apply_date_data(exif_dict, dates) ==
    IF ~Truthy(dates)
    THEN exif_dict
    ELSE LET d == dates.val
             toExif == ExifDateTags \cap DOMAIN d
             toZeroth == {DateTime} \cap DOMAIN d
             oldExif == Get(exif_dict, "Exif", EmptyMap)
             oldZeroth == Get(exif_dict, "0th", EmptyMap)
             newExif == [t \in (DOMAIN oldExif) \cup toExif |->
                            IF t \in toExif THEN d[t] ELSE oldExif[t]]
             newZeroth == [t \in (DOMAIN oldZeroth) \cup toZeroth |->
                            IF t \in toZeroth THEN d[t] ELSE oldZeroth[t]]
         IN  [n \in (DOMAIN exif_dict) \cup {"Exif", "0th"} |->
                CASE n = "Exif" -> newExif
                  [] n = "0th" -> newZeroth
                  [] OTHER -> exif_dict[n]]

\* Mutant: a GPS group the target already has is kept.
Merged_KeepTargetGps(exif_dict, gps, dates) ==
    LET withGps == [n \in (DOMAIN exif_dict) \cup {"GPS"} |->
                        IF n = "GPS" /\ Get(exif_dict, "GPS", EmptyMap) = EmptyMap
                        THEN gps ELSE exif_dict[n]]
    IN  IF Truthy(dates) THEN _apply_date_data(withGps, dates) ELSE withGps

\* Mutant: the 1st group is emptied.
Merged_DropsFirst(exif_dict, gps, dates) ==
    LET withGps == [n \in (DOMAIN exif_dict) \cup {"GPS"} |->
                        CASE n = "GPS" -> gps
                          [] n = "1st" -> EmptyMap
                          [] OTHER -> exif_dict[n]]
    IN  IF Truthy(dates) THEN _apply_date_data(withGps, dates) ELSE withGps

\* main.py:390-395 and 426-431: the dict a writer serializes, GPS replaced
\* and dates merged when given.
Merged(exif_dict, gps, dates) ==
    LET withGps == [n \in (DOMAIN exif_dict) \cup {"GPS"} |->
                        IF n = "GPS" THEN gps ELSE exif_dict[n]]
    IN  IF Truthy(dates) THEN _apply_date_data(withGps, dates) ELSE withGps

\* main.py:381-382 and 410-411: the options of a writer called without any.
WriterOptions(opts) == IF opts.isNone THEN [overwrite_gps |-> TRUE] ELSE opts.val

\* Mutant: without the check of the target's GPS group.
_write_exif_to_jpeg_NoRecheck(fsys, unw, file_path, gps, dates, opts) ==
    LET target_exif == piexif_load(fsys, file_path)
    IN  IF ~target_exif.ok THEN target_exif
        ELSE LET exif_bytes == piexif_dump(Merged(target_exif.val, gps, dates))
                 inserted == piexif_insert(fsys, unw, exif_bytes, file_path)
             IN  IF inserted.ok THEN Ok([skipped |-> FALSE, fs |-> inserted.val])
                 ELSE inserted

\* Ok([skipped, fs]) or the exception raised.
_write_exif_to_jpeg(fsys, unw, file_path, gps, dates, opts) ==
    LET target_exif == piexif_load(fsys, file_path)
    IN  IF ~target_exif.ok THEN target_exif
        ELSE IF ~Get(WriterOptions(opts), "overwrite_gps", TRUE)
                /\ Get(target_exif.val, "GPS", EmptyMap) # EmptyMap
        THEN Ok([skipped |-> TRUE, fs |-> fsys])
        ELSE LET exif_bytes == piexif_dump(Merged(target_exif.val, gps, dates))
                 inserted == piexif_insert(fsys, unw, exif_bytes, file_path)
             IN  IF inserted.ok THEN Ok([skipped |-> FALSE, fs |-> inserted.val])
                 ELSE inserted

_write_exif_to_heic(fsys, unw, heif, file_path, gps, dates, opts) ==
    LET img == Image_open(fsys, heif, file_path)
    IN  IF ~img.ok THEN img
        ELSE LET existing_exif == img.val.info_exif
                 exif_dict == IF existing_exif # EmptyBytes
                              THEN piexif_load_bytes(existing_exif)
                              ELSE Ok(EmptyExifDict)
             IN  IF ~exif_dict.ok THEN exif_dict
                 ELSE IF ~Get(WriterOptions(opts), "overwrite_gps", TRUE)
                         /\ Get(exif_dict.val, "GPS", EmptyMap) # EmptyMap
                 THEN Ok([skipped |-> TRUE, fs |-> fsys])
                 ELSE LET exif_bytes == piexif_dump(Merged(exif_dict.val, gps, dates))
                          saved == Image_save(fsys, unw, heif, file_path, exif_bytes)
                      IN  IF saved.ok THEN Ok([skipped |-> FALSE, fs |-> saved.val])
                          ELSE saved

(***************************************************************************)
(* The files and arguments a call is tried on.                              *)
(***************************************************************************)
SrcJpg == <<"s", ".", "j", "p", "g">>
SrcHeic == <<"s", ".", "h", "e", "i", "c">>
PathA == <<"d", "/", "a", ".", "j", "p", "g">>
PathB == <<"b", ".", "H", "E", "I", "C">>

TargetPaths == {PathA, PathB}

\* A target path that is also the backup path of PathA.
PathABackup == BackupPath(PathA)

AllPaths == {SrcJpg, SrcHeic} \cup TargetPaths \cup {BackupPath(p) : p \in TargetPaths}
            \cup {BackupPath(PathABackup)}

GpsA == (GPSLatitudeRef :> "N" @@ GPSLatitude :> <<<<25, 1>>, <<2, 1>>, <<3, 1>>>>
         @@ GPSLongitudeRef :> "E" @@ GPSLongitude :> <<<<121, 1>>, <<30, 1>>, <<0, 1>>>>)

GpsB == (GPSLatitudeRef :> "S" @@ GPSLatitude :> <<<<33, 1>>, <<51, 1>>, <<7, 1>>>>
         @@ GPSLongitudeRef :> "W" @@ GPSLongitude :> <<<<70, 1>>, <<40, 1>>, <<9, 1>>>>)

GpsPartial == (GPSLatitude :> <<<<25, 1>>, <<2, 1>>, <<3, 1>>>>)

TagMapping(zeroth, exif, gps) ==
    [n \in Groups |-> CASE n = "0th" -> zeroth [] n = "Exif" -> exif
                        [] n = "GPS" -> gps [] OTHER -> EmptyMap]

SrcFull ==
    TagMapping(Make :> "Apple" @@ DateTime :> "2024:05:01 10:00:00",
               DateTimeOriginal :> "2024:05:01 09:59:58"
               @@ DateTimeDigitized :> "2024:05:01 09:59:59"
               @@ OffsetTime :> "+08:00" @@ OffsetTimeOriginal :> "+08:00"
               @@ OffsetTimeDigitized :> "+08:00" @@ ExposureTime :> "1/60",
               GpsA)

SrcSomeDates == TagMapping(EmptyMap, DateTimeOriginal :> "2024:05:01 09:59:58", GpsA)

SrcNoDates == TagMapping(Make :> "Apple", ExposureTime :> "1/60", GpsPartial)

SrcNoGps == TagMapping(Make :> "Apple", DateTimeOriginal :> "2024:05:01 09:59:58", EmptyMap)

TgtPlain ==
    TagMapping(Make :> "Canon",
               DateTimeOriginal :> "2001:01:01 00:00:00" @@ ExposureTime :> "1/200",
               EmptyMap)

\* A target with GPS data and, with its thumbnail, tags in the 1st group.
TgtGps ==
    [TagMapping(Make :> "Nikon" @@ DateTime :> "2002:02:02 00:00:00",
                DateTimeDigitized :> "2002:02:02 00:00:00",
                GpsB)
     EXCEPT !["1st"] = (Make :> "Nikon thumbnail")]

File(format, blob) == [exists |-> TRUE, fmt |-> format, exif |-> blob]

Junk == File("junk", [kind |-> "garbage"])

SourceChoices ==
    {[path |-> SrcJpg, file |-> f] :
        f \in {NoFile, File("jpeg", piexif_dump(SrcFull)), File("jpeg", piexif_dump(SrcSomeDates)),
               File("jpeg", piexif_dump(SrcNoDates)), File("jpeg", piexif_dump(SrcNoGps))}}
    \cup {[path |-> SrcHeic, file |-> f] :
        f \in {File("heif", piexif_dump(SrcFull)), File("heif", EmptyBytes)}}

\* What a target path may hold when the call begins.
TargetFiles(p) ==
    IF _is_heic(p)
    THEN {NoFile, File("heif", EmptyBytes), File("heif", piexif_dump(TgtGps))}
    ELSE {NoFile, Junk, File("jpeg", EmptyBytes), File("jpeg", piexif_dump(TgtPlain)),
          File("jpeg", piexif_dump(TgtGps))}

\* Target lists, with repetitions, up to MaxTargets long.
TargetLists == UNION {[1..n -> TargetPaths] : n \in 0..MaxTargets}

OptionChoices ==
    {None, Some(EmptyMap), Some("copy_date" :> TRUE), Some("overwrite_gps" :> FALSE),
     Some([copy_date |-> TRUE, overwrite_gps |-> FALSE])}

CallbackChoices == {"none", "ok", "raises_first", "raises_final"}

\* At most one quirk of the environment per call: a listed target or its
\* backup path cannot be written, or a backup of an earlier run is there.
Quirks(listed) ==
    {[kind |-> "none", path |-> <<>>]}
    \cup {[kind |-> "unwritable", path |-> p] : p \in listed}
    \cup {[kind |-> "unwritable", path |-> BackupPath(p)] : p \in listed}
    \cup {[kind |-> "stale_backup", path |-> BackupPath(p)] : p \in listed}

Range(seq) == {seq[i] : i \in 1..Len(seq)}

Init ==
    /\ target_paths \in TargetLists
    /\ \E sc \in SourceChoices, q \in Quirks(Range(target_paths)),
          files \in [TargetPaths -> UNION {TargetFiles(p) : p \in TargetPaths}] :
            /\ \A p \in TargetPaths :
                 files[p] \in (IF p \in Range(target_paths) THEN TargetFiles(p) ELSE {NoFile})
            /\ source_path = sc.path
            /\ fs = [p \in AllPaths |->
                        CASE p = sc.path -> sc.file
                          [] p \in TargetPaths -> files[p]
                          [] q.kind = "stale_backup" /\ p = q.path -> Junk
                          [] OTHER -> NoFile]
            /\ unwritable = IF q.kind = "unwritable" THEN {q.path} ELSE {}
    /\ fs0 = fs
    /\ arg = None
    /\ ret = None
    /\ batch = 1
    /\ ui = NoUi
    \* HEIF_SUPPORTED is read only for HEIC/HEIF paths.
    /\ HEIF_SUPPORTED \in (IF \E p \in {source_path} \cup Range(target_paths) : _is_heic(p)
                           THEN BOOLEAN ELSE {TRUE})
    /\ options \in OptionChoices
    /\ progress_callback \in CallbackChoices
    /\ pc = "start"
    /\ idx = 0
    /\ results = [success_count |-> 0, skipped |-> 0, failed |-> <<>>, message |-> <<>>]
    /\ gps_data = EmptyMap
    /\ date_data = None
    /\ calls = <<>>
    /\ events = <<>>
    /\ seen = <<>>
    /\ outcome = "running"

(***************************************************************************)
(* transfer_gps_data_batch, main.py:69-187.                                 *)
(***************************************************************************)
\* Mutant: the default of overwrite_gps is false.
Options_NoOverwrite == IF options.isNone THEN [copy_date |-> FALSE, overwrite_gps |-> FALSE]
                       ELSE options.val

\* The options in force: main.py:85-86.
Options == IF options.isNone THEN [copy_date |-> FALSE, overwrite_gps |-> TRUE]
           ELSE options.val

total == Len(target_paths)

\* Mutant: the list is walked from its end.
target_path_Reversed == target_paths[total - idx]

\* enumerate() is 0-based, sequences are 1-based.
target_path == target_paths[idx + 1]

\* Whether the callback supplied raises when called with these arguments.
CallbackRaises(current, status) ==
    \/ progress_callback = "raises_first" /\ current = 0 /\ status # <<>>
    \/ progress_callback = "raises_final" /\ status = <<>>

CallbackError == <<"callback failed">>

\* Mutant: the handler swallows the exception without recording it.
HandleTargetError_Swallow(res, file, e) == res

\* Mutant: the handler records the first target of the list, not the failing one.
HandleTargetError_FirstFile(res, file, e) ==
    [res EXCEPT !.failed = Append(@, [file |-> target_paths[1], error |-> e])]

\* main.py:147-148, the handler of the per-target try.
HandleTargetError(res, file, e) ==
    [res EXCEPT !.failed = Append(@, [file |-> file, error |-> e])]

\* Mutant: the outer handler leaves the message empty.
HandleOuterError_Silent(res, e) == res

\* main.py:184-185, the handler of the outer try.
HandleOuterError(res, e) ==
    [res EXCEPT !.message = <<"Error", " loading source: ">> \o e]

\* Mutant: the check of the source's GPS group never fires.
NoGpsData_Never(gps) == FALSE

\* main.py:109, "if not gps_data".
NoGpsData(gps) == gps = EmptyMap

\* Mutant: the progress index counts from one.
ProgressArgs_OneBased(i) ==
    <<i + 1, total, <<"(">> \o Basename(target_paths[i + 1]) \o <<")">>>>

\* main.py:124, the arguments of the progress call of target i (0-based).
ProgressArgs(i) == <<i, total, <<"(">> \o Basename(target_paths[i + 1]) \o <<")">>>>

\* main.py:152, the arguments of the terminal progress call.
FinalArgs == <<total, total, <<>>>>

\* Mutant: a skipped target is counted as a success.
CountSkipped_AsSuccess(res) == [res EXCEPT !.success_count = @ + 1]

\* main.py:128 and 144, results["skipped"] += 1.
CountSkipped(res) == [res EXCEPT !.skipped = @ + 1]

Done(how) == pc' = "done" /\ outcome' = how

Log(op) == events' = Append(events, [op |-> op, i |-> idx])

\* main.py:95-119: load the source, take its GPS group and its dates.
LoadSource ==
    /\ pc = "start"
    /\ UNCHANGED <<fs, fs0, unwritable, arg, ret, batch, ui, HEIF_SUPPORTED, source_path, target_paths,
                   options, progress_callback, idx, calls, events, seen>>
    /\ IF _is_heic(source_path) /\ ~HEIF_SUPPORTED
       THEN /\ results' = [results EXCEPT !.message =
                             <<"Error", ": HEIC support not available. ",
                               "Install pillow-heif: pip install pillow-heif">>]
            /\ Done("heif_unavailable")
            /\ UNCHANGED <<gps_data, date_data>>
       ELSE LET source_exif == IF _is_heic(source_path)
                               THEN _load_exif_from_heic(fs, HEIF_SUPPORTED, source_path)
                               ELSE piexif_load(fs, source_path)
            IN  IF ~source_exif.ok
                THEN /\ results' = HandleOuterError(results, source_exif.err)
                     /\ Done("source_error")
                     /\ UNCHANGED <<gps_data, date_data>>
                ELSE IF NoGpsData(Get(source_exif.val, "GPS", EmptyMap))
                THEN /\ results' = [results EXCEPT !.message =
                                      <<"Error", ": Source image has ", "no GPS data", "!">>]
                     /\ Done("no_gps")
                     /\ UNCHANGED <<gps_data, date_data>>
                ELSE /\ gps_data' = Get(source_exif.val, "GPS", EmptyMap)
                     /\ date_data' = IF Get(Options, "copy_date", FALSE)
                                     THEN _extract_date_data(source_exif.val)
                                     ELSE None
                     /\ pc' = "loop"
                     /\ UNCHANGED <<results, outcome>>

\* main.py:120-124: take up the next target and report progress.
Progress ==
    /\ pc = "loop"
    /\ idx < total
    /\ UNCHANGED <<fs, fs0, unwritable, arg, ret, batch, ui, HEIF_SUPPORTED, source_path, target_paths,
                   options, progress_callback, gps_data, date_data, outcome>>
    /\ seen' = Append(seen, fs[target_path])
    /\ LET args == ProgressArgs(idx)
       IN  IF progress_callback = "none"
           THEN /\ pc' = "probe"
                /\ Log("taken")
                /\ UNCHANGED <<calls, results, idx>>
           ELSE /\ calls' = Append(calls, args)
                /\ IF CallbackRaises(args[1], args[3])
                   THEN /\ results' = HandleTargetError(results, target_path, CallbackError)
                        /\ Log("callback_raised")
                        /\ idx' = idx + 1
                        /\ pc' = "loop"
                   ELSE /\ pc' = "probe"
                        /\ Log("taken")
                        /\ UNCHANGED <<results, idx>>

\* main.py:126-129: the skip probe.
Probe ==
    /\ pc = "probe"
    /\ UNCHANGED <<fs, fs0, unwritable, arg, ret, batch, ui, HEIF_SUPPORTED, source_path, target_paths,
                   options, progress_callback, gps_data, date_data, calls, outcome, seen>>
    /\ IF _should_skip_file(fs, HEIF_SUPPORTED, target_path, Options)
       THEN /\ results' = CountSkipped(results)
            /\ Log("probe_skipped")
            /\ idx' = idx + 1
            /\ pc' = "loop"
       ELSE /\ pc' = "backup"
            /\ Log("probe_passed")
            /\ UNCHANGED <<results, idx>>

\* main.py:131-132: the backup.
Backup ==
    /\ pc = "backup"
    /\ UNCHANGED <<fs0, unwritable, arg, ret, batch, ui, HEIF_SUPPORTED, source_path, target_paths,
                   options, progress_callback, gps_data, date_data, calls, outcome, seen>>
    /\ LET made == _create_backup(fs, unwritable, target_path)
       IN  IF made.ok
           THEN /\ fs' = made.val
                /\ Log("backup")
                /\ pc' = "write"
                /\ UNCHANGED <<results, idx>>
           ELSE /\ results' = HandleTargetError(results, target_path, made.err)
                /\ Log("backup_raised")
                /\ idx' = idx + 1
                /\ pc' = "loop"
                /\ UNCHANGED fs

\* main.py:134-148: the format-specific writer and the count of its outcome.
Write ==
    /\ pc = "write"
    /\ UNCHANGED <<fs0, unwritable, arg, ret, batch, ui, HEIF_SUPPORTED, source_path, target_paths,
                   options, progress_callback, gps_data, date_data, calls, outcome, seen>>
    /\ idx' = idx + 1
    /\ pc' = "loop"
    /\ LET wrote == IF _is_heic(target_path)
                    THEN _write_exif_to_heic(fs, unwritable, HEIF_SUPPORTED, target_path,
                                             gps_data, date_data, Some(Options))
                    ELSE _write_exif_to_jpeg(fs, unwritable, target_path,
                                             gps_data, date_data, Some(Options))
       IN  IF ~wrote.ok
           THEN /\ results' = HandleTargetError(results, target_path, wrote.err)
                /\ Log("write_raised")
                /\ UNCHANGED fs
           ELSE IF wrote.val.skipped
           THEN /\ results' = CountSkipped(results)
                /\ Log("writer_skipped")
                /\ UNCHANGED fs
           ELSE /\ results' = [results EXCEPT !.success_count = @ + 1]
                /\ Log("written")
                /\ fs' = wrote.val.fs

\* main.py:150-152: the terminal progress call; what it raises reaches the
\* outer handler.
FinalProgress ==
    /\ pc = "loop"
    /\ idx = total
    /\ UNCHANGED <<fs, fs0, unwritable, arg, ret, batch, ui, HEIF_SUPPORTED, source_path, target_paths,
                   options, progress_callback, idx, gps_data, date_data, events, seen>>
    /\ IF progress_callback = "none"
       THEN /\ pc' = "message"
            /\ UNCHANGED <<calls, results, outcome>>
       ELSE /\ calls' = Append(calls, FinalArgs)
            /\ IF CallbackRaises(FinalArgs[1], FinalArgs[3])
               THEN /\ results' = HandleOuterError(results, CallbackError)
                    /\ Done("callback_error")
               ELSE /\ pc' = "message"
                    /\ UNCHANGED <<results, outcome>>

\* int -> pieces of its decimal string
Str(n) == ToString(n)

\* ", ".join(parts)
RECURSIVE Join(_)
Join(parts) ==
    IF Len(parts) = 0 THEN <<>>
    ELSE IF Len(parts) = 1 THEN parts[1]
    ELSE parts[1] \o <<", ">> \o Join(Tail(parts))

\* Mutant: without the "elif success_count > 0" branch.
ComposeMessage_NoPartial(res, n) ==
    IF res.success_count = n - res.skipped /\ res.skipped = 0
    THEN <<"Successfully processed ", Str(res.success_count), " file(s)">>
    ELSE IF res.skipped = n
    THEN <<"All ", Str(res.skipped), " files skipped (already have GPS data)">>
    ELSE <<"Failed to process any files">>

\* Mutant: the first assignment of main.py:168-172 alone, which drops the
\* head of the message when there is a parenthetical.
ComposeMessage_FirstAssignment(res, n) ==
    IF res.success_count = n - res.skipped /\ res.skipped = 0
    THEN <<"Successfully processed ", Str(res.success_count), " file(s)">>
    ELSE IF res.success_count > 0
    THEN LET first == <<"Processed ", Str(res.success_count), "/", Str(n), " files">>
             rest == (IF res.skipped > 0 THEN <<<<Str(res.skipped), " skipped">>>> ELSE <<>>)
                     \o (IF Len(res.failed) > 0
                         THEN <<<<Str(Len(res.failed)), " failed">>>> ELSE <<>>)
         IN  IF Len(rest) > 0 THEN <<" (">> \o Join(rest) \o <<")">> ELSE first
    ELSE IF res.skipped = n
    THEN <<"All ", Str(res.skipped), " files skipped (already have GPS data)">>
    ELSE <<"Failed to process any files">>

\* main.py:154-182: the message of a completed loop.
ComposeMessage(res, n) ==
    LET total_attempted == n - res.skipped
    IN  IF res.success_count = total_attempted /\ res.skipped = 0
        THEN <<"Successfully processed ", Str(res.success_count), " file(s)">>
        ELSE IF res.success_count > 0
        THEN LET first == <<"Processed ", Str(res.success_count), "/", Str(n), " files">>
                 skippedPart == IF res.skipped > 0
                                THEN <<<<Str(res.skipped), " skipped">>>> ELSE <<>>
                 failedPart == IF Len(res.failed) > 0
                               THEN <<<<Str(Len(res.failed)), " failed">>>> ELSE <<>>
                 rest == skippedPart \o failedPart
             IN  first \o (IF Len(rest) > 0 THEN <<" (">> \o Join(rest) \o <<")">> ELSE <<>>)
        ELSE IF res.skipped = n
        THEN <<"All ", Str(res.skipped), " files skipped (already have GPS data)">>
        ELSE <<"Failed to process any files">>

BuildMessage ==
    /\ pc = "message"
    /\ results' = [results EXCEPT !.message = ComposeMessage(results, total)]
    /\ Done("completed")
    /\ UNCHANGED <<fs, fs0, unwritable, arg, ret, batch, ui, HEIF_SUPPORTED, source_path, target_paths,
                   options, progress_callback, idx, gps_data, date_data, calls, events, seen>>

(***************************************************************************)
(* A second specification, for the message composition alone: the loop has  *)
(* ended with any counters up to MaxCount each, the targets being as many   *)
(* as were counted, and BuildMessage composes the message.                  *)
(***************************************************************************)
MaxCount == 3

InitMsg ==
    /\ \E s \in 0..MaxCount, k \in 0..MaxCount, f \in 0..MaxCount :
          /\ results = [success_count |-> s, skipped |-> k,
                        failed |-> [i \in 1..f |-> [file |-> PathA, error |-> <<"error">>]],
                        message |-> <<>>]
          /\ target_paths = [i \in 1..(s + k + f) |-> PathA]
    /\ idx = Len(target_paths)
    /\ pc = "message"
    /\ fs = [p \in AllPaths |-> IF p = SrcJpg THEN File("jpeg", piexif_dump(SrcFull)) ELSE NoFile]
    /\ fs0 = fs
    /\ unwritable = {}
    /\ arg = None
    /\ ret = None
    /\ batch = 1
    /\ ui = NoUi
    /\ HEIF_SUPPORTED = TRUE
    /\ source_path = SrcJpg
    /\ options = None
    /\ progress_callback = "none"
    /\ gps_data = GpsA
    /\ date_data = None
    /\ calls = <<>>
    /\ events = <<>>
    /\ seen = <<>>
    /\ outcome = "running"

NextMsg == BuildMessage

SpecMsg == InitMsg /\ [][NextMsg]_vars

Next == LoadSource \/ Progress \/ Probe \/ Backup \/ Write \/ FinalProgress \/ BuildMessage

Spec == Init /\ [][Next]_vars

(***************************************************************************)
(* Observers used by the properties below.                                  *)
(***************************************************************************)
\* The source was loaded and its GPS group accepted: the loop was entered.
LoopEntered == pc \in {"loop", "probe", "backup", "write", "message"}
               \/ outcome \in {"completed", "callback_error"}

Returned == pc = "done"

Counted == results.success_count + results.skipped + Len(results.failed)

\* What was done to target index i (0-based).
Ops(i) == {events[k].op : k \in {k \in 1..Len(events) : events[k].i = i}}

RaisedOps == {"callback_raised", "backup_raised", "write_raised"}

\* A piece sequence occurs in a message.
Contains(msg, pat) ==
    \E k \in 0..(Len(msg) - Len(pat)) : SubSeq(msg, k + 1, k + Len(pat)) = pat

(***************************************************************************)
(* C1: once the source has loaded with GPS data, success_count + skipped +  *)
(* len(failed) equals the number of targets processed so far (k after the   *)
(* k-th target) and len(target_paths) in the returned result; when loading  *)
(* the source fails the result has success_count 0, skipped 0, failed [].   *)
(***************************************************************************)
C1_CountersSum ==
    /\ LoopEntered /\ ~Returned => Counted = idx
    /\ LoopEntered /\ Returned => Counted = Len(target_paths)
    /\ ~LoopEntered =>
         results.success_count = 0 /\ results.skipped = 0 /\ results.failed = <<>>

C1_Witness ==
    /\ Returned /\ outcome = "completed"
    /\ Len(target_paths) = 2
    /\ results.success_count = 1
    /\ Len(results.failed) = 1

(***************************************************************************)
(* C2: an exception raised while one target is processed (backup, load,     *)
(* merge, serialize, persist) does not abort the batch: the target is       *)
(* recorded in failed with its path and a cause string, in the order of     *)
(* the exceptions, and every later target is still taken up.                *)
(***************************************************************************)
RaisedAt == SelectSeq(events, LAMBDA e : e.op \in RaisedOps)

C2_FailureIsolated ==
    /\ Len(results.failed) = Len(RaisedAt)
    /\ \A k \in 1..Len(RaisedAt) :
         /\ k <= Len(results.failed)
         /\ results.failed[k].file = target_paths[RaisedAt[k].i + 1]
         /\ Len(results.failed[k].error) > 0
    /\ LoopEntered /\ Returned =>
         /\ idx = Len(target_paths)
         /\ \A i \in 0..(Len(target_paths) - 1) : Ops(i) # {}

C2_Witness ==
    /\ Returned /\ outcome = "completed"
    /\ Len(target_paths) = 2
    /\ Ops(0) \cap {"backup_raised", "write_raised"} # {}
    /\ "written" \in Ops(1)

(***************************************************************************)
(* C3: for every target that reaches the write step, in every target list   *)
(* (lists that repeat a path included), when the batch returns the file     *)
(* {target}.backup exists and equals, byte for byte, the content the        *)
(* target had when the batch call began.                                    *)
(***************************************************************************)
C3_BackupEqualsOriginal ==
    Returned =>
        \A i \in 0..(Len(target_paths) - 1) :
            "backup" \in Ops(i) =>
                /\ fs[BackupPath(target_paths[i + 1])].exists
                /\ fs[BackupPath(target_paths[i + 1])] = fs0[target_paths[i + 1]]

(***************************************************************************)
(* More observers: what the files hold, read off the file system without    *)
(* the helpers of main.py.                                                  *)
(***************************************************************************)
\* The file can be loaded through the API its path's extension selects.
Loadable(f, p) ==
    /\ f.exists
    /\ f.exif.kind # "garbage"
    /\ IF _is_heic(p) THEN f.fmt # "junk" /\ (f.fmt = "heif" => HEIF_SUPPORTED)
       ELSE f.fmt = "jpeg"

TagsOf(f) == IF f.exists /\ f.exif.kind = "exif" THEN f.exif.ifd ELSE EmptyExifDict

GpsOf(f) == TagsOf(f)["GPS"]

SourceFile == fs0[source_path]

\* The source loads: a HEIC/HEIF source also needs HEIF support and an
\* attached EXIF blob.
SourceLoads ==
    /\ Loadable(SourceFile, source_path)
    /\ _is_heic(source_path) => HEIF_SUPPORTED /\ SourceFile.exif.kind = "exif"

SourceGps == GpsOf(SourceFile)

OverwriteGps == IF options.isNone \/ "overwrite_gps" \notin DOMAIN options.val
                THEN TRUE ELSE options.val["overwrite_gps"]

CopyDate == IF options.isNone \/ "copy_date" \notin DOMAIN options.val
            THEN FALSE ELSE options.val["copy_date"]

\* Target idx-1 has just been finished.
JustFinished == pc = "loop" /\ idx > 0

Prev == target_paths[idx]

Before == seen[idx]

LastOp == events[Len(events)].op

SkipOps == {"probe_skipped", "writer_skipped"}

Count(ops) == Cardinality({k \in 1..Len(events) : events[k].op \in ops})

(***************************************************************************)
(* C4 as stated: a loadable target whose GPS group is non-empty is counted  *)
(* in skipped and left unchanged when overwrite_gps is false, and counted   *)
(* in success_count with the source's GPS data when overwrite_gps is true;  *)
(* a target is skipped only in the first case.  (Stated for calls whose     *)
(* progress callback, if any, returns normally.)                            *)
(***************************************************************************)
C4_Original ==
    progress_callback \in {"none", "ok"} =>
    /\ results.skipped = Count(SkipOps)
    /\ results.success_count = Count({"written"})
    /\ JustFinished /\ LastOp \in SkipOps =>
         ~OverwriteGps /\ Loadable(Before, Prev) /\ GpsOf(Before) # EmptyMap
    /\ JustFinished /\ Loadable(Before, Prev) /\ GpsOf(Before) # EmptyMap =>
         IF OverwriteGps
         THEN LastOp = "written" /\ GpsOf(fs[Prev]) = SourceGps
         ELSE LastOp \in SkipOps /\ fs[Prev] = Before

(***************************************************************************)
(* C4 amended: such a target is, when overwrite_gps is false, counted in    *)
(* skipped and left unchanged, and, when overwrite_gps is true, counted in  *)
(* success_count with the source's GPS data; unless an exception is raised  *)
(* in its iteration (progress callback, backup or write), in which case it  *)
(* is recorded in failed and its file is left unchanged.  A target is       *)
(* skipped only when overwrite_gps is false and its GPS group is non-empty. *)
(***************************************************************************)
C4_OverwritePolicy ==
    /\ results.skipped = Count(SkipOps)
    /\ results.success_count = Count({"written"})
    /\ JustFinished /\ LastOp \in SkipOps =>
         ~OverwriteGps /\ Loadable(Before, Prev) /\ GpsOf(Before) # EmptyMap
    /\ JustFinished /\ Loadable(Before, Prev) /\ GpsOf(Before) # EmptyMap =>
         \/ /\ LastOp \in RaisedOps
            /\ fs[Prev] = Before
            /\ results.failed[Len(results.failed)].file = Prev
         \/ IF OverwriteGps
            THEN LastOp = "written" /\ GpsOf(fs[Prev]) = SourceGps
            ELSE LastOp \in SkipOps /\ fs[Prev] = Before

C4_Witness ==
    /\ JustFinished
    /\ OverwriteGps
    /\ GpsOf(Before) = GpsB
    /\ LastOp = "written"
    /\ GpsOf(fs[Prev]) = GpsA

(***************************************************************************)
(* C5: when the loaded source has no GPS data the batch returns             *)
(* success_count 0 and a message containing "no GPS data", and no target    *)
(* is read, backed up or written.                                           *)
(***************************************************************************)
C5_NoGpsShortCircuit ==
    SourceLoads /\ SourceGps = EmptyMap =>
        /\ pc \in {"start", "done"}
        /\ fs = fs0 /\ events = <<>> /\ seen = <<>> /\ calls = <<>>
        /\ results.success_count = 0
        /\ Returned => Contains(results.message, <<"no GPS data">>)

C5_Witness ==
    /\ Returned
    /\ SourceLoads /\ SourceGps = EmptyMap
    /\ Len(target_paths) = 2
    /\ \A i \in 1..2 : fs0[target_paths[i]].exists

(***************************************************************************)
(* C6: when the source cannot be loaded, or is HEIC/HEIF while HEIF         *)
(* support is unavailable, the batch short-circuits: success_count is 0,    *)
(* the message contains "Error", and no target is read, backed up or        *)
(* written.                                                                 *)
(***************************************************************************)
C6_SourceErrorShortCircuit ==
    ~SourceLoads =>
        /\ pc \in {"start", "done"}
        /\ fs = fs0 /\ events = <<>> /\ seen = <<>> /\ calls = <<>>
        /\ results.success_count = 0
        /\ Returned => Contains(results.message, <<"Error">>)

C6_Witness ==
    /\ Returned
    /\ ~SourceFile.exists
    /\ Len(target_paths) = 2
    /\ \A i \in 1..2 : fs0[target_paths[i]].exists

(***************************************************************************)
(* The scenario of C7: the source loads with GPS data, no progress call     *)
(* raises, exactly one entry of target_paths names a file that does not     *)
(* exist and every other entry is valid: loadable, writable, with a         *)
(* writable backup path, and not to be skipped under the options.           *)
(***************************************************************************)
Indexes == 1..Len(target_paths)

MissingTarget(i) == ~fs0[target_paths[i]].exists

ValidTarget(i) ==
    LET p == target_paths[i]
    IN  /\ Loadable(fs0[p], p)
        /\ p \notin unwritable
        /\ BackupPath(p) \notin unwritable
        /\ \/ OverwriteGps
           \/ /\ GpsOf(fs0[p]) = EmptyMap
              /\ \A j \in Indexes : j # i => target_paths[j] # p

OneMissingTarget(m) ==
    /\ SourceLoads /\ SourceGps # EmptyMap
    /\ progress_callback \in {"none", "ok"}
    /\ m \in Indexes
    /\ MissingTarget(m)
    /\ \A i \in Indexes : i # m => ValidTarget(i)

PartialFailureResult(m) ==
    /\ Len(results.failed) = 1
    /\ results.failed[1].file = target_paths[m]
    /\ results.success_count = Len(target_paths) - 1
    /\ Contains(results.message,
                <<"Processed ", ToString(results.success_count), "/",
                  ToString(Len(target_paths)), " files">>)

(***************************************************************************)
(* C7 as stated: every batch whose targets are all valid except exactly     *)
(* one non-existent path returns failed == [{file: thatPath, ...}],         *)
(* success_count == len(targets) - 1 and a message containing               *)
(* "Processed {success_count}/{len(targets)} files".                        *)
(***************************************************************************)
C7_Original ==
    Returned => \A m \in Indexes : OneMissingTarget(m) => PartialFailureResult(m)

(***************************************************************************)
(* C7 amended: the same for every such batch of at least two targets.  (A   *)
(* batch of the one non-existent path alone returns "Failed to process any  *)
(* files".)                                                                 *)
(***************************************************************************)
C7_PartialFailure ==
    Returned /\ Len(target_paths) >= 2 =>
        \A m \in Indexes : OneMissingTarget(m) => PartialFailureResult(m)

C7_Witness ==
    /\ Returned
    /\ Len(target_paths) = 2
    /\ OneMissingTarget(2)
    /\ results.success_count = 1

DateTagsOfExif == {36867, 36868, 36880, 36881, 36882}

DateTagsOfZeroth == {306}

CarriedOver(group, tags) ==
    LET src == TagsOf(SourceFile)[group]
        old == TagsOf(Before)[group]
        new == TagsOf(fs[Prev])[group]
    IN  \A t \in tags :
            IF t \in DOMAIN src
            THEN t \in DOMAIN new /\ new[t] = src[t]
            ELSE /\ t \in DOMAIN new <=> t \in DOMAIN old
                 /\ t \in DOMAIN new => new[t] = old[t]

C9_DatesCopied ==
    JustFinished /\ LastOp = "written" /\ CopyDate =>
        /\ CarriedOver("Exif", DateTagsOfExif)
        /\ CarriedOver("0th", DateTagsOfZeroth)
        /\ DOMAIN TagsOf(fs[Prev])["Exif"] \cap DateTagsOfZeroth = {}
        /\ DOMAIN TagsOf(fs[Prev])["0th"] \cap DateTagsOfExif = {}

C9_Witness ==
    /\ JustFinished /\ LastOp = "written" /\ CopyDate
    /\ 36867 \in DOMAIN TagsOf(SourceFile)["Exif"]
    /\ 36867 \in DOMAIN TagsOf(Before)["Exif"]
    /\ TagsOf(fs[Prev])["Exif"][36867] # TagsOf(Before)["Exif"][36867]
    /\ 306 \notin DOMAIN TagsOf(SourceFile)["0th"]
    /\ 306 \notin DOMAIN TagsOf(fs[Prev])["0th"]

(***************************************************************************)
(* C10: the message of a completed batch is determined by success_count,    *)
(* skipped, len(failed) and total: "Successfully processed {s} file(s)" if  *)
(* s == total - skipped and skipped == 0; else, if s > 0, "Processed        *)
(* {s}/{total} files" followed by a parenthetical listing "{skipped}        *)
(* skipped" and "{len(failed)} failed", in this order and comma-joined,     *)
(* for those that are nonzero; else "All {skipped} files skipped (already   *)
(* have GPS data)" if skipped == total; otherwise "Failed to process any    *)
(* files".                                                                  *)
(***************************************************************************)
Parenthetical(k, f) ==
    CASE k > 0 /\ f > 0 ->
           <<" (", ToString(k), " skipped", ", ", ToString(f), " failed", ")">>
      [] k > 0 /\ f = 0 -> <<" (", ToString(k), " skipped", ")">>
      [] k = 0 /\ f > 0 -> <<" (", ToString(f), " failed", ")">>
      [] OTHER -> <<>>

ClaimedMessage(s, k, f, n) ==
    CASE s = n - k /\ k = 0 -> <<"Successfully processed ", ToString(s), " file(s)">>
      [] ~(s = n - k /\ k = 0) /\ s > 0 ->
           <<"Processed ", ToString(s), "/", ToString(n), " files">> \o Parenthetical(k, f)
      [] ~(s = n - k /\ k = 0) /\ s <= 0 /\ k = n ->
           <<"All ", ToString(k), " files skipped (already have GPS data)">>
      [] OTHER -> <<"Failed to process any files">>

C10_MessagePolicy ==
    outcome = "completed" =>
        results.message = ClaimedMessage(results.success_count, results.skipped,
                                         Len(results.failed), Len(target_paths))

C10_Witness ==
    /\ outcome = "completed"
    /\ results.success_count > 0 /\ results.skipped > 0 /\ Len(results.failed) > 0
    /\ Contains(results.message, <<" skipped", ", ">>)

(***************************************************************************)
(* The progress calls a batch is claimed to make.                           *)
(***************************************************************************)
\* The last component of a path: what follows its last "/".
NameOf(p) ==
    LET first == CHOOSE k \in 1..(Len(p) + 1) :
                    /\ k = 1 \/ p[k - 1] = "/"
                    /\ \A j \in k..Len(p) : p[j] # "/"
    IN  SubSeq(p, first, Len(p))

TargetCall(i) == <<i, Len(target_paths), <<"(">> \o NameOf(target_paths[i + 1]) \o <<")">>>>

TerminalCall == <<Len(target_paths), Len(target_paths), <<>>>>

CallsEqualTo(c) == {k \in 1..Len(calls) : calls[k] = c}

(***************************************************************************)
(* C11: when a progress callback is supplied and the source loads with GPS  *)
(* data, the callback is called for every target with (index, total,        *)
(* "(basename)") before that target is probed, backed up or written, and    *)
(* exactly once with (total, total, ""), which is the last call; every      *)
(* call carries two integers and a string.                                  *)
(***************************************************************************)
C11_ProgressCalls ==
    progress_callback # "none" /\ LoopEntered =>
        /\ \A k \in 1..Len(calls) :
             calls[k][1] \in Int /\ calls[k][2] \in Int /\ calls[k][3] \in Seq(STRING)
        /\ pc \in {"probe", "backup", "write"} =>
             Len(calls) > 0 /\ calls[Len(calls)] = TargetCall(idx)
        /\ \A i \in 0..(Len(target_paths) - 1) : Ops(i) # {} => CallsEqualTo(TargetCall(i)) # {}
        /\ Cardinality(CallsEqualTo(TerminalCall)) = IF pc \in {"message", "done"} THEN 1 ELSE 0
        /\ pc \in {"message", "done"} =>
             /\ calls[Len(calls)] = TerminalCall
             /\ \A i \in 0..(Len(target_paths) - 1) : CallsEqualTo(TargetCall(i)) # {}

C11_Witness ==
    /\ Returned /\ progress_callback = "ok"
    /\ target_paths = <<PathA, PathB>>
    /\ calls = <<<<0, 2, <<"(", "a", ".", "j", "p", "g", ")">>>>,
                 <<1, 2, <<"(", "b", ".", "H", "E", "I", "C", ")">>>>,
                 <<2, 2, <<>>>>>>

(***************************************************************************)
(* C12: targets are processed strictly in input order: the processing of    *)
(* target i (probe, backup, write or failure record) is complete before     *)
(* any operation on target i+1 begins, progress indexes are emitted in      *)
(* increasing order, and the file fields of the failed entries form a       *)
(* subsequence of target_paths in input order.                              *)
(***************************************************************************)
FinalOps == SkipOps \cup RaisedOps \cup {"written"}

IsSubsequence(sub, seq) ==
    \E f \in [1..Len(sub) -> 1..Len(seq)] :
        /\ \A k \in 1..Len(sub) : sub[k] = seq[f[k]]
        /\ \A k \in 1..(Len(sub) - 1) : f[k] < f[k + 1]

C12_InputOrder ==
    /\ \A k \in 1..(Len(events) - 1) :
         \/ events[k + 1].i = events[k].i /\ events[k].op \notin FinalOps
         \/ events[k + 1].i = events[k].i + 1 /\ events[k].op \in FinalOps
    /\ Len(events) > 0 => events[1].i = 0
    /\ \A k \in 1..(Len(calls) - 1) :
         calls[k][1] < calls[k + 1][1] /\ calls[k][3] # <<>>
    /\ IsSubsequence([k \in 1..Len(results.failed) |-> results.failed[k].file], target_paths)

C12_Witness ==
    /\ Returned
    /\ target_paths = <<PathB, PathA>>
    /\ Len(results.failed) = 2
    /\ results.failed[1].file = PathB /\ results.failed[2].file = PathA

(***************************************************************************)
(* A target without any metadata: a native container without an EXIF        *)
(* segment, or a HEIC/HEIF container without an attached EXIF blob.         *)
(***************************************************************************)
NoMetadata(f, p) ==
    /\ f.exists
    /\ f.exif = EmptyBytes
    /\ f.fmt = (IF _is_heic(p) THEN "heif" ELSE "jpeg")

WrittenWithSourceGps ==
    /\ LastOp = "written"
    /\ Ops(idx - 1) \cap RaisedOps = {}
    /\ results.success_count = Count({"written"})
    /\ Len(results.failed) = Count(RaisedOps)
    /\ GpsOf(fs[Prev]) # EmptyMap
    /\ GpsOf(fs[Prev]) = SourceGps

(***************************************************************************)
(* C13 as stated: a target that has no metadata at all is written by the    *)
(* batch: it is counted in success_count, not in failed, and afterwards     *)
(* has a non-empty GPS group equal to the source's.  (Stated for calls      *)
(* whose progress callback, if any, returns normally.)                      *)
(***************************************************************************)
C13_Original ==
    progress_callback \in {"none", "ok"} =>
        (JustFinished /\ NoMetadata(Before, Prev) => WrittenWithSourceGps)

(***************************************************************************)
(* C13 amended: such a target is written (counted in success_count, not in  *)
(* failed, GPS group equal to the source's) provided that its file and its  *)
(* backup path can be written, that HEIF support is available when it is a  *)
(* HEIC/HEIF container, and that the progress call for it returns.          *)
(***************************************************************************)
C13_NoMetadataWritten ==
    JustFinished /\ NoMetadata(Before, Prev)
    /\ Prev \notin unwritable /\ BackupPath(Prev) \notin unwritable
    /\ (_is_heic(Prev) => HEIF_SUPPORTED)
    /\ LastOp # "callback_raised"
    => WrittenWithSourceGps

C13_Witness ==
    /\ Returned
    /\ target_paths = <<PathA, PathB>>
    /\ NoMetadata(fs0[PathA], PathA) /\ NoMetadata(fs0[PathB], PathB)
    /\ results.success_count = 2 /\ results.failed = <<>>
    /\ GpsOf(fs[PathA]) = GpsA /\ GpsOf(fs[PathB]) = GpsA

(***************************************************************************)
(* Helpers called on their own.  The argument is drawn from a bounded set,  *)
(* the helper is applied to it and its return value is kept in ret.         *)
(***************************************************************************)
\* The variables of the batch, at rest.
NoBatch ==
    /\ batch = 1
    /\ ui = NoUi
    /\ fs = [p \in AllPaths |-> NoFile]
    /\ fs0 = fs
    /\ unwritable = {}
    /\ source_path = SrcJpg
    /\ target_paths = <<>>
    /\ options = None
    /\ progress_callback = "none"
    /\ idx = 0
    /\ results = [success_count |-> 0, skipped |-> 0, failed |-> <<>>, message |-> <<>>]
    /\ gps_data = EmptyMap
    /\ date_data = None
    /\ calls = <<>>
    /\ events = <<>>
    /\ seen = <<>>
    /\ outcome = "running"

BatchUnchanged ==
    UNCHANGED <<fs, fs0, unwritable, batch, ui, HEIF_SUPPORTED, source_path, target_paths, options,
                progress_callback, idx, results, gps_data, date_data, calls, events,
                seen, outcome>>

\* Bound of the paths tried: the longest prefix put before a suffix.
MaxStem == 3

Stems == UNION {[1..n -> {"a", ".", "/"}] : n \in 0..MaxStem}

Suffixes ==
    {<<>>,
     <<".", "h", "e", "i", "c">>, <<".", "H", "E", "I", "C">>, <<".", "H", "e", "I", "c">>,
     <<".", "h", "e", "i", "f">>, <<".", "H", "E", "I", "F">>, <<".", "h", "E", "i", "F">>,
     <<".", "j", "p", "g">>, <<".", "J", "P", "E", "G">>, <<".", "p", "n", "g">>,
     <<".", "h", "e", "i", "c", "x">>, <<".", "h", "e", "i">>, <<"h", "e", "i", "c">>,
     <<".", "h", "e", "i", "c", ".", "j", "p", "g">>,
     <<".", "j", "p", "g", ".", "h", "e", "i", "c">>,
     <<".", "h", "e", "i", "c", "/">>, <<".", "h", "e", "i", "c", ".">>,
     <<".", "h", "e", "i", "f", "/", "a">>}

PathInputs == {stem \o suffix : stem \in Stems, suffix \in Suffixes}

InitPath ==
    /\ NoBatch
    /\ HEIF_SUPPORTED \in BOOLEAN
    /\ arg \in PathInputs
    /\ ret = None
    /\ pc = "classify"

\* A call of _is_heic(arg).
Classify ==
    /\ pc = "classify"
    /\ ret' = Some(_is_heic(arg))
    /\ pc' = "classified"
    /\ UNCHANGED arg
    /\ BatchUnchanged

NextPath == Classify

SpecPath == InitPath /\ [][NextPath]_vars

\* The extension of a path: the suffix of its last component from that
\* component's last dot, when something other than dots precedes the dot.
ExtensionOf(p) ==
    LET name == NameOf(p)
        dots == {k \in 1..Len(name) :
                    /\ name[k] = "."
                    /\ \A j \in (k + 1)..Len(name) : name[j] # "."
                    /\ \E j \in 1..(k - 1) : name[j] # "."}
    IN  IF dots = {} THEN <<>> ELSE SubSeq(name, CHOOSE k \in dots : TRUE, Len(name))

IsHeicExtension(e) ==
    /\ Len(e) = 5
    /\ e[1] = "."
    /\ e[2] \in {"h", "H"}
    /\ e[3] \in {"e", "E"}
    /\ e[4] \in {"i", "I"}
    /\ e[5] \in {"c", "C", "f", "F"}

(***************************************************************************)
(* C14: _is_heic(path) returns true iff the extension of the path (the      *)
(* final suffix only), compared case-insensitively, is .heic or .heif; it   *)
(* depends on nothing but the path string and returns a boolean for every   *)
(* path string.                                                             *)
(***************************************************************************)
C14_Classifier ==
    pc = "classified" =>
        /\ ~ret.isNone
        /\ ret.val \in BOOLEAN
        /\ ret.val <=> IsHeicExtension(ExtensionOf(arg))

C14_Witness ==
    /\ pc = "classified"
    /\ arg = <<".", "/", "a", ".", "H", "e", "I", "c">>
    /\ ret.val

(***************************************************************************)
(* The date extractor on its own: tag mappings with any of the date tags,   *)
(* with other tags, with a date tag in the group that is not its own, and   *)
(* without an Exif or a 0th group.                                          *)
(***************************************************************************)
ValueOf(tag) == <<"value of", tag>>

ExifGroups ==
    {[t \in (dates \cup other) |-> ValueOf(t)] :
        dates \in SUBSET ExifDateTags, other \in {{}, {ExposureTime}, {DateTime}}}

ZerothGroups ==
    {[t \in tags |-> ValueOf(t)] : tags \in SUBSET {DateTime, Make, DateTimeOriginal}}

ExifDictInputs ==
    {("0th" :> z @@ "Exif" :> x @@ "GPS" :> GpsA) : z \in ZerothGroups, x \in ExifGroups}
    \cup {("0th" :> z @@ "GPS" :> GpsA) : z \in ZerothGroups}
    \cup {("Exif" :> x) : x \in ExifGroups}

InitDates ==
    /\ NoBatch
    /\ HEIF_SUPPORTED = TRUE
    /\ arg \in ExifDictInputs
    /\ ret = None
    /\ pc = "extract"

\* A call of _extract_date_data(arg).
Extract ==
    /\ pc = "extract"
    /\ ret' = _extract_date_data(arg)
    /\ pc' = "extracted"
    /\ UNCHANGED arg
    /\ BatchUnchanged

NextDates == Extract

SpecDates == InitDates /\ [][NextDates]_vars

\* The date tags present in a tag mapping, each in its own group.
DatesPresent(d) ==
    (IF "Exif" \in DOMAIN d THEN DateTagsOfExif \cap DOMAIN d["Exif"] ELSE {})
    \cup (IF "0th" \in DOMAIN d THEN DateTagsOfZeroth \cap DOMAIN d["0th"] ELSE {})

GroupOf(tag) == IF tag \in DateTagsOfZeroth THEN "0th" ELSE "Exif"

(***************************************************************************)
(* C15: the date extractor returns None, never an empty mapping, exactly    *)
(* when none of the date tags is present in the source tag mapping;         *)
(* otherwise it returns a mapping holding exactly the date tags present on  *)
(* the source, with their source values.                                    *)
(***************************************************************************)
C15_ExtractDates ==
    pc = "extracted" =>
        /\ ret.isNone <=> DatesPresent(arg) = {}
        /\ ~ret.isNone =>
             /\ DOMAIN ret.val # {}
             /\ DOMAIN ret.val = DatesPresent(arg)
             /\ \A t \in DOMAIN ret.val : ret.val[t] = arg[GroupOf(t)][t]

C15_Witness ==
    /\ pc = "extracted"
    /\ DatesPresent(arg) = {36867, 36881, 306}
    /\ ~ret.isNone
    /\ DOMAIN ret.val = {36867, 36881, 306}

(***************************************************************************)
(* Options given in part.                                                   *)
(***************************************************************************)
\* Every dict over the two option keys.
OptionDicts ==
    {[k \in keys |-> b[k]] : keys \in SUBSET {"copy_date", "overwrite_gps"},
                             b \in [{"copy_date", "overwrite_gps"} -> BOOLEAN]}

\* The dict with the claimed default put in for each missing key.
Complete(o) ==
    [copy_date |-> IF "copy_date" \in DOMAIN o THEN o["copy_date"] ELSE FALSE,
     overwrite_gps |-> IF "overwrite_gps" \in DOMAIN o THEN o["overwrite_gps"] ELSE TRUE]

CompleteOrDefault(opt) == IF opt.isNone THEN Complete(EmptyMap) ELSE Complete(opt.val)

\* The writer the batch selects for a path, applied to a file system.
WriterOf(fsys, file_path, opt) ==
    IF _is_heic(file_path)
    THEN _write_exif_to_heic(fsys, unwritable, HEIF_SUPPORTED, file_path, gps_data, date_data, opt)
    ELSE _write_exif_to_jpeg(fsys, unwritable, file_path, gps_data, date_data, opt)

DateTagsUnchanged(group, tags) ==
    LET old == TagsOf(Before)[group]
        new == TagsOf(fs[Prev])[group]
    IN  \A t \in tags : /\ t \in DOMAIN new <=> t \in DOMAIN old
                        /\ t \in DOMAIN new => new[t] = old[t]

(***************************************************************************)
(* C16: option defaults apply per key: when options is omitted, or is       *)
(* given without one of its keys, the missing copy_date behaves as false    *)
(* and the missing overwrite_gps behaves as true, in the skip predicate,    *)
(* in the batch engine and in both writers alike.                           *)
(***************************************************************************)
C16_OptionDefaults ==
    \* the skip predicate, on the target at hand
    /\ pc = "probe" =>
         \A o \in OptionDicts :
            _should_skip_file(fs, HEIF_SUPPORTED, target_path, o)
              = _should_skip_file(fs, HEIF_SUPPORTED, target_path, Complete(o))
    \* both writers, on the target at hand
    /\ pc = "write" =>
         \A opt \in {None} \cup {Some(o) : o \in OptionDicts} :
            WriterOf(fs, target_path, opt) = WriterOf(fs, target_path, Some(CompleteOrDefault(opt)))
    \* the batch engine
    /\ LoopEntered /\ ~CopyDate => date_data = None
    /\ LoopEntered /\ CopyDate /\ DatesPresent(TagsOf(SourceFile)) # {} => ~date_data.isNone
    /\ JustFinished /\ LastOp \in SkipOps => ~OverwriteGps
    /\ JustFinished /\ OverwriteGps /\ GpsOf(Before) # EmptyMap /\ LastOp \notin RaisedOps =>
         LastOp = "written" /\ GpsOf(fs[Prev]) = SourceGps
    /\ JustFinished /\ ~CopyDate /\ LastOp = "written" =>
         DateTagsUnchanged("Exif", DateTagsOfExif) /\ DateTagsUnchanged("0th", DateTagsOfZeroth)

C16_Witness ==
    /\ JustFinished
    /\ options = Some("copy_date" :> TRUE)
    /\ GpsOf(Before) = GpsB
    /\ LastOp = "written"
    /\ GpsOf(fs[Prev]) = GpsA

(***************************************************************************)
(* Backups.                                                                 *)
(***************************************************************************)
WriteOps == {"written", "writer_skipped", "write_raised"}

\* The file system with another file put at a path.
With(fsys, p, f) == [fsys EXCEPT ![p] = f]

\* What a writer's outcome says and does to the target.
Effect(wrote, p) ==
    IF wrote.ok THEN <<"returned", wrote.val.skipped, wrote.val.fs[p]>>
    ELSE <<"raised", wrote.err>>

(***************************************************************************)
(* C17: no target file is modified unless a backup of that target was       *)
(* created earlier in the same iteration: the write to a target is always   *)
(* preceded by the completed copy to {target}.backup, and the engine never  *)
(* reads the backup back (what it does next does not depend on what the     *)
(* backup holds).                                                           *)
(***************************************************************************)
C17_BackupBeforeWrite ==
    /\ pc = "write" =>
         /\ events[Len(events)] = [op |-> "backup", i |-> idx]
         /\ fs[target_path] = seen[idx + 1]
         /\ fs[BackupPath(target_path)] = fs[target_path]
    /\ \A k \in 1..Len(events) :
         events[k].op \in WriteOps =>
            k > 1 /\ events[k - 1] = [op |-> "backup", i |-> events[k].i]
    /\ JustFinished /\ fs[Prev] # Before =>
         /\ LastOp = "written"
         /\ "backup" \in Ops(idx - 1)
         /\ fs[BackupPath(Prev)] = Before
    /\ \A p \in TargetPaths :
         fs[p] # fs0[p] =>
            \E i \in Indexes : target_paths[i] = p /\ {"backup", "written"} \subseteq Ops(i - 1)
    /\ pc = "probe" =>
         \A f \in {NoFile, Junk} :
            _should_skip_file(With(fs, BackupPath(target_path), f), HEIF_SUPPORTED,
                              target_path, Options)
              = _should_skip_file(fs, HEIF_SUPPORTED, target_path, Options)
    /\ pc = "write" =>
         \A f \in {NoFile, Junk} :
            Effect(WriterOf(With(fs, BackupPath(target_path), f), target_path, Some(Options)),
                   target_path)
              = Effect(WriterOf(fs, target_path, Some(Options)), target_path)

C17_Witness ==
    /\ JustFinished
    /\ LastOp = "written"
    /\ fs[Prev] # Before
    /\ fs0[BackupPath(Prev)] = Junk
    /\ fs[BackupPath(Prev)] = Before

(***************************************************************************)
(* C18: when creating the backup of a target fails (the backup path cannot  *)
(* be written, the target is not there), that target is recorded exactly    *)
(* once in failed with file equal to its path, it is not counted in         *)
(* success_count or skipped, its file is not written, and the batch         *)
(* continues with the next target.                                          *)
(***************************************************************************)
RaisedIn(i) == {k \in 1..Len(events) : events[k].i = i /\ events[k].op \in RaisedOps}

C18_BackupFailure ==
    /\ JustFinished /\ "probe_passed" \in Ops(idx - 1)
       /\ (BackupPath(Prev) \in unwritable \/ ~Before.exists)
       => LastOp = "backup_raised"
    /\ JustFinished /\ LastOp = "backup_raised" =>
         /\ Cardinality(RaisedIn(idx - 1)) = 1
         /\ Len(results.failed) = Count(RaisedOps)
         /\ results.failed[Len(results.failed)].file = Prev
         /\ Contains(results.failed[Len(results.failed)].error,
                     <<"Failed to create backup for ">>)
         /\ results.success_count = Count({"written"})
         /\ results.skipped = Count(SkipOps)
         /\ Ops(idx - 1) \cap (SkipOps \cup WriteOps \cup {"backup"}) = {}
         /\ fs[Prev] = Before
    /\ Returned /\ LoopEntered =>
         \A i \in 0..(Len(target_paths) - 1) :
            "backup_raised" \in Ops(i) /\ i + 1 < Len(target_paths) => Ops(i + 1) # {}

C18_Witness ==
    /\ Returned
    /\ Len(target_paths) = 2
    /\ BackupPath(target_paths[1]) \in unwritable
    /\ fs0[target_paths[1]].exists
    /\ "backup_raised" \in Ops(0)
    /\ "written" \in Ops(1)

ProbeFails(f, p) == ~Loadable(f, p) \/ f.exif = EmptyBytes

AnyFile == UNION {TargetFiles(p) : p \in TargetPaths}

C20_ProbeFailure ==
    /\ pc = "probe" /\ OverwriteGps =>
         \A f \in AnyFile :
            ~_should_skip_file(With(fs, target_path, f), HEIF_SUPPORTED, target_path, Options)
    /\ pc = "probe" /\ ~OverwriteGps /\ ProbeFails(fs[target_path], target_path) =>
         ~_should_skip_file(fs, HEIF_SUPPORTED, target_path, Options)
    /\ results.skipped = Count(SkipOps)
    /\ JustFinished /\ ProbeFails(Before, Prev) =>
         /\ LastOp \notin SkipOps
         /\ LastOp # "callback_raised" =>
              /\ "probe_passed" \in Ops(idx - 1)
              /\ Ops(idx - 1) \cap {"backup", "backup_raised"} # {}
              /\ Before.exists /\ BackupPath(Prev) \notin unwritable => LastOp \in WriteOps
    /\ JustFinished /\ ~Loadable(Before, Prev) =>
         /\ LastOp \in RaisedOps
         /\ results.failed[Len(results.failed)].file = Prev
         /\ fs[Prev] = Before

C20_Witness ==
    /\ JustFinished
    /\ ~OverwriteGps
    /\ Before = Junk
    /\ "backup" \in Ops(idx - 1)
    /\ LastOp = "write_raised"

(***************************************************************************)
(* A batch during which another program rewrites a target after the engine  *)
(* has taken it up and before the writer loads it.                          *)
(***************************************************************************)
InitRace ==
    /\ Init
    /\ progress_callback = "none"
    /\ unwritable = {}

\* The target at hand is replaced once, between the skip probe and the
\* writer's load (main.py:127-139).
ExternalWrite ==
    /\ pc \in {"backup", "write"}
    /\ fs[target_path] = seen[idx + 1]
    /\ \E f \in TargetFiles(target_path) \ {fs[target_path]} :
          fs' = [fs EXCEPT ![target_path] = f]
    /\ UNCHANGED <<fs0, unwritable, arg, ret, batch, ui, HEIF_SUPPORTED, source_path, target_paths,
                   options, progress_callback, pc, idx, results, gps_data, date_data,
                   calls, events, seen, outcome>>

NextRace == Next \/ ExternalWrite

SpecRace == InitRace /\ [][NextRace]_vars

(***************************************************************************)
(* C21: with overwrite_gps false, a target whose on-disk GPS group is       *)
(* non-empty at the moment the writer loads it is not written, even when    *)
(* the earlier skip probe returned false for it: the writer signals         *)
(* skipped, the file is left as it is, and the target is counted in         *)
(* skipped, not in success_count or failed.                                 *)
(***************************************************************************)
C21_WriterRechecks ==
    [][pc = "write" /\ pc' = "loop" /\ ~OverwriteGps
       /\ Loadable(fs[target_paths[idx + 1]], target_paths[idx + 1])
       /\ GpsOf(fs[target_paths[idx + 1]]) # EmptyMap
       => /\ fs' = fs
          /\ results' = [results EXCEPT !.skipped = @ + 1]
          /\ events'[Len(events')].op = "writer_skipped"]_vars

C21_Witness ==
    /\ JustFinished
    /\ ~OverwriteGps
    /\ "probe_passed" \in Ops(idx - 1)
    /\ LastOp = "writer_skipped"
    /\ GpsOf(Before) = EmptyMap
    /\ GpsOf(fs[Prev]) = GpsB
    /\ results.skipped = 1 /\ results.success_count = 0 /\ results.failed = <<>>

(***************************************************************************)
(* C22: an exception thrown by the progress callback, in a per-target call  *)
(* or in the terminal call, propagates out of the batch call: the engine    *)
(* does not go on, does not record it as a target failure and does not      *)
(* turn it into a result message.                                           *)
(***************************************************************************)
CallbackHasRaised == \E k \in 1..Len(calls) : CallbackRaises(calls[k][1], calls[k][3])

C22_CallbackPropagates ==
    CallbackHasRaised =>
        /\ pc = "done" /\ outcome = "callback_propagated"
        /\ \A k \in 1..Len(results.failed) : results.failed[k].error # CallbackError
        /\ ~Contains(results.message, CallbackError)

(***************************************************************************)
(* C23: a source GPS group counts as present only if it holds all four of   *)
(* GPSLatitudeRef, GPSLatitude, GPSLongitudeRef and GPSLongitude: a source  *)
(* whose GPS group is non-empty but lacks one of them is treated as having  *)
(* no GPS data, so the batch short-circuits and touches no target.          *)
(***************************************************************************)
RequiredGpsTags == {1, 2, 3, 4}

C23_RequiresFourTags ==
    SourceLoads /\ ~(RequiredGpsTags \subseteq DOMAIN SourceGps) =>
        /\ pc \in {"start", "done"}
        /\ fs = fs0 /\ events = <<>> /\ seen = <<>> /\ calls = <<>>
        /\ Returned => Contains(results.message, <<"no GPS data">>)

(***************************************************************************)
(* Writes that copy no date.                                                *)
(***************************************************************************)
NoDatesToCopy == ~CopyDate \/ DatesPresent(TagsOf(SourceFile)) = {}

OtherGroups == {"0th", "Exif", "1st"}

\* A group without the pointer the codec keeps in 0th for the GPS group.
WithoutGpsPointer(group) == [t \in (DOMAIN group) \ {34853} |-> group[t]]

TargetDictInputs ==
    {[g \in groups |-> CASE g = "Exif" -> x [] g = "0th" -> z
                         [] g = "GPS" -> GpsB [] OTHER -> (Make :> "Nikon thumbnail")] :
        groups \in {{"GPS", "1st"} \cup some : some \in SUBSET {"Exif", "0th"}},
        x \in {EmptyMap,
               DateTimeOriginal :> "2001:01:01 00:00:00" @@ ExposureTime :> "1/200",
               OffsetTime :> "-05:00" @@ DateTime :> "misplaced"},
        z \in {EmptyMap, Make :> "Canon" @@ DateTime :> "2002:02:02 00:00:00"}}

DateInputs ==
    {None} \cup {Some([t \in tags |-> ValueOf(t)]) : tags \in SUBSET (ExifDateTags \cup {DateTime})}

InitApply ==
    /\ NoBatch
    /\ HEIF_SUPPORTED = TRUE
    /\ arg \in [exif_dict : TargetDictInputs, dates : DateInputs]
    /\ ret = None
    /\ pc = "apply"

\* A call of _apply_date_data(exif_dict, date_data); ret is exif_dict after it.
Apply ==
    /\ pc = "apply"
    /\ ret' = Some(_apply_date_data(arg.exif_dict, arg.dates))
    /\ pc' = "applied"
    /\ UNCHANGED arg
    /\ BatchUnchanged

NextApply == Apply

SpecApply == InitApply /\ [][NextApply]_vars

\* A group after the assignment of the given tags from a sub-mapping.
Assigned(new, old, tags, m) ==
    /\ DOMAIN new = (DOMAIN old) \cup tags
    /\ \A t \in DOMAIN new : new[t] = IF t \in tags THEN m[t] ELSE old[t]

GroupOrEmpty(d, g) == IF g \in DOMAIN d THEN d[g] ELSE EmptyMap

(***************************************************************************)
(* C25: the date applier changes only the keys present in the date          *)
(* sub-mapping: DateTimeOriginal, DateTimeDigitized and the three offset    *)
(* tags are assigned in the Exif group and DateTime in the 0th group, an    *)
(* empty Exif or 0th group being created first if it is missing; every      *)
(* other tag of the target tag mapping keeps its value, and with an absent  *)
(* sub-mapping the target tag mapping is left completely unchanged.         *)
(***************************************************************************)
C25_ApplyDates ==
    pc = "applied" =>
        LET d == arg.exif_dict
            r == ret.val
        IN  IF arg.dates.isNone
            THEN r = d
            ELSE LET m == arg.dates.val
                 IN  IF DOMAIN m = {}
                     THEN r = d
                     ELSE /\ DOMAIN r = (DOMAIN d) \cup {"Exif", "0th"}
                          /\ \A g \in (DOMAIN d) \ {"Exif", "0th"} : r[g] = d[g]
                          /\ Assigned(r["Exif"], GroupOrEmpty(d, "Exif"),
                                      (DOMAIN m) \cap DateTagsOfExif, m)
                          /\ Assigned(r["0th"], GroupOrEmpty(d, "0th"),
                                      (DOMAIN m) \cap DateTagsOfZeroth, m)

C25_Witness ==
    /\ pc = "applied"
    /\ DOMAIN arg.exif_dict = {"GPS", "1st", "0th"}
    /\ arg.exif_dict["0th"] # EmptyMap
    /\ ~arg.dates.isNone
    /\ DOMAIN arg.dates.val = {36868, 306}
    /\ DOMAIN ret.val["Exif"] = {36868}
    /\ DOMAIN ret.val["0th"] = {271, 306}

(***************************************************************************)
(* The slots of the date sub-mapping.                                       *)
(***************************************************************************)
DateSlots == DateTagsOfExif \cup DateTagsOfZeroth

\* What a tag mapping holds in the date slots.
SlotView(d) == [t \in DatesPresent(d) |-> d[GroupOf(t)][t]]

(***************************************************************************)
(* C26 as stated: the date sub-mapping covers a fixed set of 5 tag slots:   *)
(* the result of the date extractor never carries more than 5 tags.         *)
(***************************************************************************)
C26_Original ==
    pc = "extracted" /\ ~ret.isNone => Cardinality(DOMAIN ret.val) <= 5

(***************************************************************************)
(* C26 amended: the date sub-mapping covers a fixed set of 6 tag slots      *)
(* (DateTimeOriginal, DateTimeDigitized, OffsetTime, OffsetTimeOriginal,    *)
(* OffsetTimeDigitized in Exif and DateTime in 0th): for every source tag   *)
(* mapping the extractor reads only those slots (two mappings that agree    *)
(* on them give the same result) and its result never carries a tag         *)
(* outside them, so never more than 6 tags.                                 *)
(***************************************************************************)
C26_SixSlots ==
    pc = "extracted" =>
        /\ ~ret.isNone =>
             /\ DOMAIN ret.val \subseteq DateSlots
             /\ Cardinality(DOMAIN ret.val) <= 6
        /\ \A other \in ExifDictInputs :
             SlotView(other) = SlotView(arg) => _extract_date_data(other) = ret

C26_Witness ==
    /\ pc = "extracted"
    /\ ~ret.isNone
    /\ Cardinality(DOMAIN ret.val) = 6
    /\ 271 \in DOMAIN arg["0th"]
    /\ 33434 \in DOMAIN arg["Exif"]

(***************************************************************************)
(* Two consecutive batch calls with the same arguments: the second begins   *)
(* on the files the first has left.                                         *)
(***************************************************************************)
InitTwice ==
    /\ Init
    /\ progress_callback = "none"
    /\ unwritable = {}
    /\ \A i, j \in 1..Len(target_paths) : i # j => target_paths[i] # target_paths[j]

\* transfer_gps_data_batch is called again after it has returned.
SecondBatch ==
    /\ pc = "done"
    /\ batch = 1
    /\ batch' = 2
    /\ pc' = "start"
    /\ idx' = 0
    /\ results' = [success_count |-> 0, skipped |-> 0, failed |-> <<>>, message |-> <<>>]
    /\ fs0' = fs
    /\ gps_data' = EmptyMap
    /\ date_data' = None
    /\ calls' = <<>>
    /\ events' = <<>>
    /\ seen' = <<>>
    /\ outcome' = "running"
    /\ UNCHANGED <<fs, unwritable, arg, ret, ui, HEIF_SUPPORTED, source_path, target_paths,
                   options, progress_callback>>

NextTwice == Next \/ SecondBatch

SpecTwice == InitTwice /\ [][NextTwice]_vars

\* The path claimed for the backup of a target.
DotBackup(p) == p \o <<".", "b", "a", "c", "k", "u", "p">>

(***************************************************************************)
(* C27: the backup of a target is written to exactly the target path with   *)
(* the suffix ".backup"; a file already present at that path from a prior   *)
(* run does not make the target fail and is replaced, so after two          *)
(* consecutive batches over the same target the backup holds the target's   *)
(* content as it was just before the second batch.                          *)
(***************************************************************************)
C27_BackupReplaced ==
    /\ [](/\ JustFinished /\ "backup" \in Ops(idx - 1) => fs[DotBackup(Prev)] = Before
          /\ JustFinished /\ "probe_passed" \in Ops(idx - 1) /\ Before.exists
               /\ DotBackup(Prev) \notin unwritable => "backup" \in Ops(idx - 1)
          /\ Returned /\ batch = 2 =>
               \A i \in Indexes :
                  "backup" \in Ops(i - 1) => fs[DotBackup(target_paths[i])] = fs0[target_paths[i]])
    /\ [][pc = "backup" =>
            \A p \in AllPaths : p # DotBackup(target_paths[idx + 1]) => fs'[p] = fs[p]]_vars

C27_Witness ==
    /\ Returned /\ batch = 2
    /\ Len(target_paths) = 1
    /\ "written" \in Ops(0)
    /\ fs0[DotBackup(target_paths[1])].exists
    /\ fs0[DotBackup(target_paths[1])] # fs0[target_paths[1]]
    /\ fs[DotBackup(target_paths[1])] = fs0[target_paths[1]]

(***************************************************************************)
(* C28: a result whose message starts with "Error loading source" is        *)
(* returned only when loading the source failed: in every such result       *)
(* success_count is 0, skipped is 0 and failed is empty, and no target was  *)
(* backed up or written before the error.                                   *)
(***************************************************************************)
StartsWith(msg, prefix) ==
    Len(msg) >= Len(prefix) /\ SubSeq(msg, 1, Len(prefix)) = prefix

C28_ErrorLoadingSourceOnly ==
    Returned /\ StartsWith(results.message, <<"Error", " loading source: ">>) =>
        /\ ~SourceLoads
        /\ results.success_count = 0 /\ results.skipped = 0 /\ results.failed = <<>>
        /\ Count({"backup", "written"}) = 0
        /\ fs = fs0

\* The result the claim rules out, after a target has been written.
C28_Reached ==
    /\ Returned
    /\ StartsWith(results.message, <<"Error", " loading source: ">>)
    /\ SourceLoads
    /\ target_paths = <<PathA>>
    /\ results.success_count = 1
    /\ fs[PathA] # fs0[PathA]

(***************************************************************************)
(* Batches whose targets are a file and the path of that file's backup.     *)
(***************************************************************************)
InitAlias ==
    /\ target_paths \in {<<PathA, PathABackup>>, <<PathABackup, PathA>>}
    /\ \E sc \in SourceChoices, fa \in TargetFiles(PathA), fb \in TargetFiles(PathABackup) :
          /\ source_path = sc.path
          /\ fs = [p \in AllPaths |->
                      CASE p = sc.path -> sc.file
                        [] p = PathA -> fa
                        [] p = PathABackup -> fb
                        [] OTHER -> NoFile]
    /\ fs0 = fs
    /\ unwritable = {}
    /\ arg = None
    /\ ret = None
    /\ batch = 1
    /\ ui = NoUi
    /\ HEIF_SUPPORTED = TRUE
    /\ options \in OptionChoices
    /\ progress_callback = "none"
    /\ pc = "start"
    /\ idx = 0
    /\ results = [success_count |-> 0, skipped |-> 0, failed |-> <<>>, message |-> <<>>]
    /\ gps_data = EmptyMap
    /\ date_data = None
    /\ calls = <<>>
    /\ events = <<>>
    /\ seen = <<>>
    /\ outcome = "running"

SpecAlias == InitAlias /\ [][Next]_vars

PairwiseDistinct(seq) == \A i, j \in 1..Len(seq) : i # j => seq[i] # seq[j]

(***************************************************************************)
(* C17, for every target list: no file named in target_paths is modified    *)
(* by a step of the batch unless the step is the write of that target and   *)
(* the backup of that target, made in the same iteration, holds what the    *)
(* file held.                                                               *)
(***************************************************************************)
C17_NoUnbackedChange ==
    [][\A j \in 1..Len(target_paths) :
          fs'[target_paths[j]] # fs[target_paths[j]] =>
             /\ pc = "write"
             /\ target_paths[j] = target_paths[idx + 1]
             /\ fs[DotBackup(target_paths[j])] = fs[target_paths[j]]]_vars

(***************************************************************************)
(* C29: processing one target writes only that target's path and its        *)
(* {target}.backup path: for every list of pairwise distinct target paths,  *)
(* the bytes of every other path in target_paths are unchanged by it.       *)
(***************************************************************************)
C29_OtherTargetsUntouched ==
    [][PairwiseDistinct(target_paths) /\ idx < Len(target_paths) =>
          /\ \A j \in 1..Len(target_paths) :
                j # idx + 1 => fs'[target_paths[j]] = fs[target_paths[j]]
          /\ \A p \in AllPaths :
                p \notin {target_paths[idx + 1], DotBackup(target_paths[idx + 1])}
                   => fs'[p] = fs[p]]_vars

(***************************************************************************)
(* transfer_gps_data, main.py:190-306, as one function from the file        *)
(* system at the call to the result returned, the file system left and the  *)
(* progress calls made.                                                     *)
(***************************************************************************)
\* main.py:204-205
TransferOptions == IF options.isNone THEN [copy_date |-> FALSE, overwrite_gps |-> TRUE]
                   ELSE options.val

TransferReturn(res, fsys, cs) == [results |-> res, fs |-> fsys, calls |-> cs]

\* Mutant: the parenthetical of the message leaves out the skipped count.
TransferMessage_NoSkippedPart(res, n) ==
    IF res.success_count = n - res.skipped /\ res.skipped = 0
    THEN <<"Successfully processed ", ToString(res.success_count), " file(s)">>
    ELSE IF res.success_count > 0
    THEN <<"Processed ", ToString(res.success_count), "/", ToString(n), " files">>
         \o (IF Len(res.failed) > 0
             THEN <<" (", ToString(Len(res.failed)), " failed", ")">> ELSE <<>>)
    ELSE IF res.skipped = n
    THEN <<"All ", ToString(res.skipped), " files skipped (already have GPS data)">>
    ELSE <<"Failed to process any files">>

\* main.py:273-301
TransferMessage(res, n) ==
    LET total_attempted == n - res.skipped
        head == <<"Processed ", ToString(res.success_count), "/", ToString(n), " files">>
        msg_parts == <<head>>
                     \o (IF res.skipped > 0
                         THEN <<<<ToString(res.skipped), " skipped">>>> ELSE <<>>)
                     \o (IF Len(res.failed) > 0
                         THEN <<<<ToString(Len(res.failed)), " failed">>>> ELSE <<>>)
    IN  IF res.success_count = total_attempted /\ res.skipped = 0
        THEN <<"Successfully processed ", ToString(res.success_count), " file(s)">>
        ELSE IF res.success_count > 0
        THEN msg_parts[1] \o (IF Len(msg_parts) > 1
                              THEN <<" (">> \o Join(Tail(msg_parts)) \o <<")">>
                              ELSE <<>>)
        ELSE IF res.skipped = n
        THEN <<"All ", ToString(res.skipped), " files skipped (already have GPS data)">>
        ELSE <<"Failed to process any files">>

\* main.py:239-267, the loop from index i on.
RECURSIVE TransferLoop(_, _, _, _, _, _)
TransferLoop(i, fsys, res, cs, gps, dates) ==
    IF i >= Len(target_paths)
    THEN TransferReturn(res, fsys, cs)
    ELSE LET path == target_paths[i + 1]
             args == <<i, Len(target_paths), <<"(">> \o Basename(path) \o <<")">>>>
             called == IF progress_callback = "none" THEN cs ELSE Append(cs, args)
             failed(e) == [res EXCEPT !.failed = Append(@, [file |-> path, error |-> e])]
             skipped == [res EXCEPT !.skipped = @ + 1]
             success == [res EXCEPT !.success_count = @ + 1]
         IN  IF progress_callback # "none" /\ CallbackRaises(args[1], args[3])
             THEN TransferLoop(i + 1, fsys, failed(CallbackError), called, gps, dates)
             ELSE IF _should_skip_file(fsys, HEIF_SUPPORTED, path, TransferOptions)
             THEN TransferLoop(i + 1, fsys, skipped, called, gps, dates)
             ELSE LET made == _create_backup(fsys, unwritable, path)
                  IN  IF ~made.ok
                      THEN TransferLoop(i + 1, fsys, failed(made.err), called, gps, dates)
                      ELSE LET wrote ==
                                 IF _is_heic(path)
                                 THEN _write_exif_to_heic(made.val, unwritable, HEIF_SUPPORTED,
                                                          path, gps, dates, Some(TransferOptions))
                                 ELSE _write_exif_to_jpeg(made.val, unwritable, path, gps, dates,
                                                          Some(TransferOptions))
                           IN  IF ~wrote.ok
                               THEN TransferLoop(i + 1, made.val, failed(wrote.err), called,
                                                 gps, dates)
                               ELSE IF wrote.val.skipped
                               THEN TransferLoop(i + 1, made.val, skipped, called, gps, dates)
                               ELSE TransferLoop(i + 1, wrote.val.fs, success, called,
                                                 gps, dates)

\* main.py:190-306, called on the file system fsys.
transfer_gps_data(fsys) ==
    LET res == [success_count |-> 0, skipped |-> 0, failed |-> <<>>, message |-> <<>>]
        error(e) == [res EXCEPT !.message = <<"Error", " loading source: ">> \o e]
    IN  IF _is_heic(source_path) /\ ~HEIF_SUPPORTED
        THEN TransferReturn([res EXCEPT !.message =
                               <<"Error", ": HEIC support not available. ",
                                 "Install pillow-heif: pip install pillow-heif">>],
                            fsys, <<>>)
        ELSE LET source_exif == IF _is_heic(source_path)
                                THEN _load_exif_from_heic(fsys, HEIF_SUPPORTED, source_path)
                                ELSE piexif_load(fsys, source_path)
             IN  IF ~source_exif.ok
                 THEN TransferReturn(error(source_exif.err), fsys, <<>>)
                 ELSE IF Get(source_exif.val, "GPS", EmptyMap) = EmptyMap
                 THEN TransferReturn([res EXCEPT !.message =
                                        <<"Error", ": Source image has ", "no GPS data", "!">>],
                                     fsys, <<>>)
                 ELSE LET gps == Get(source_exif.val, "GPS", EmptyMap)
                          dates == IF Get(TransferOptions, "copy_date", FALSE)
                                   THEN _extract_date_data(source_exif.val)
                                   ELSE None
                          looped == TransferLoop(0, fsys, res, <<>>, gps, dates)
                          n == Len(target_paths)
                          called == IF progress_callback = "none" THEN looped.calls
                                    ELSE Append(looped.calls, <<n, n, <<>>>>)
                      IN  IF progress_callback # "none" /\ CallbackRaises(n, <<>>)
                          THEN TransferReturn(
                                 [looped.results EXCEPT
                                    !.message = <<"Error", " loading source: ">> \o CallbackError],
                                 looped.fs, called)
                          ELSE TransferReturn(
                                 [looped.results EXCEPT
                                    !.message = TransferMessage(looped.results, n)],
                                 looped.fs, called)

(***************************************************************************)
(* C30: transfer_gps_data and transfer_gps_data_batch are equivalent: run   *)
(* from the same file-system state with the same source, targets, options   *)
(* and callback, they make the same sequence of callback calls, leave the   *)
(* same files and backups, and return equal results.                        *)
(***************************************************************************)
C30_SameAsBatch ==
    Returned => TransferReturn(results, fs, calls) = transfer_gps_data(fs0)

C30_Witness ==
    /\ Returned
    /\ progress_callback = "ok"
    /\ Len(calls) = 3
    /\ ~OverwriteGps
    /\ results.success_count = 1 /\ results.skipped = 1
    /\ transfer_gps_data(fs0).results.message
         = <<"Processed ", "1", "/", "2", " files", " (", "1", " skipped", ")">>

(***************************************************************************)
(* C31: whenever the message of a completed batch starts with               *)
(* "Processed {success_count}/{total} files", at least one of skipped and   *)
(* len(failed) is nonzero and the message ends with a non-empty             *)
(* parenthetical; the bare "Processed n/m files" is never returned.         *)
(***************************************************************************)
ProcessedHead ==
    <<"Processed ", Str(results.success_count), "/", Str(Len(target_paths)), " files">>

C31_NeverBare ==
    (Returned /\ outcome = "completed" /\ StartsWith(results.message, ProcessedHead))
       => /\ results.skipped > 0 \/ Len(results.failed) > 0
          /\ results.message # ProcessedHead
          /\ Len(results.message) >= Len(ProcessedHead) + 4
          /\ results.message[Len(ProcessedHead) + 1] = " ("
          /\ results.message[Len(results.message)] = ")"

C31_Witness ==
    /\ Returned
    /\ outcome = "completed"
    /\ results.skipped = 0
    /\ results.message = ProcessedHead \o <<" (", "1", " failed", ")">>

(***************************************************************************)
(* The batch call as a running thread: a step that can be taken is          *)
(* eventually taken (main.py:69-187 is straight-line code and one loop      *)
(* over a finite list).  Both options are set against their defaults, so   *)
(* that targets are skipped as well as written, and no path is listed      *)
(* twice.                                                                   *)
(***************************************************************************)
InitFair ==
    /\ Init
    /\ options = Some([copy_date |-> TRUE, overwrite_gps |-> FALSE])
    /\ PairwiseDistinct(target_paths)

SpecFair == InitFair /\ [][Next]_vars /\ WF_vars(Next)

\* How many times target index i (0-based) was taken up (main.py:120).
TakenUp(i) ==
    Cardinality({k \in 1..Len(events) :
                    events[k].i = i /\ events[k].op \in {"taken", "callback_raised"}})

\* The ways the call returns, all of them by "return results".
ReturnPaths == {"heif_unavailable", "source_error", "no_gps", "callback_error", "completed"}

\* What is true of a call that has returned by "return results", every
\* target having been taken up n(i) times.
ReturnedWith(n(_)) ==
    /\ Returned
    /\ outcome \in ReturnPaths
    /\ results.message # <<>>
    /\ \A i \in 0..(Len(target_paths) - 1) : TakenUp(i) = n(i)

\* C32 as stated: every target is taken up exactly once on every path.
C32_Original == <>ReturnedWith(LAMBDA i : 1)

(***************************************************************************)
(* C32: for every finite target list the batch call terminates and returns  *)
(* a result without raising, with a non-empty message on every path; each   *)
(* target has been taken up exactly once when the source was loaded with    *)
(* GPS data, and not at all on the three early returns.  (A returned call   *)
(* takes no further step, so the state it reaches is the one it returns     *)
(* in.)                                                                     *)
(***************************************************************************)
C32_Terminates == <>ReturnedWith(LAMBDA i : IF LoopEntered THEN 1 ELSE 0)

C32_Witness ==
    /\ Returned
    /\ outcome = "completed"
    /\ Len(target_paths) = MaxTargets
    /\ \A i \in 0..(Len(target_paths) - 1) : TakenUp(i) = 1
    /\ results.message # <<>>

(***************************************************************************)
(* The window, src/src/ui/main.py: ExifTransferApp.  The main thread runs   *)
(* the handlers of the buttons and the calls scheduled with after(); the    *)
(* background thread started by process_files runs the batch call with a    *)
(* progress callback that schedules update_progress.  The calls scheduled   *)
(* by the running thread and not yet run are those of calls past            *)
(* ui.handled, followed by _finish_processing once the thread has           *)
(* scheduled it.                                                            *)
(***************************************************************************)
\* What the file dialogs offer.
UiSources == {SrcJpg, SrcHeic}

UiTargetLists == {<<PathA>>, <<PathB, PathA>>}

\* ui/main.py:12-76
InitUI ==
    /\ ui = [open |-> TRUE,
             source_path |-> None,
             target_files |-> <<>>,
             copy_date_var |-> TRUE,
             overwrite_gps_var |-> TRUE,
             label |-> <<"Step 1: Select Source Photo (with GPS)">>,
             location_label |-> "hidden",
             progress_bar |-> <<0, 1>>,
             progress_label |-> <<>>,
             btn_run |-> "normal",
             thread |-> "none",
             handled |-> 0,
             in_flight |-> 0]
    \* a source with GPS data and one that cannot be loaded; a target with
    \* GPS data and one that cannot be rewritten
    /\ fs = [p \in AllPaths |->
                CASE p = SrcJpg -> File("jpeg", piexif_dump(SrcFull))
                  [] p = SrcHeic -> File("heif", EmptyBytes)
                  [] p = PathA -> File("jpeg", piexif_dump(TgtGps))
                  [] p = PathB -> File("heif", piexif_dump(TgtGps))
                  [] OTHER -> NoFile]
    /\ fs0 = fs
    /\ unwritable = {PathB}
    /\ arg = None
    /\ ret = None
    /\ batch = 1
    /\ HEIF_SUPPORTED = TRUE
    /\ source_path = SrcJpg
    /\ target_paths = <<>>
    /\ options = None
    /\ progress_callback = "none"
    /\ pc = "idle"
    /\ idx = 0
    /\ results = [success_count |-> 0, skipped |-> 0, failed |-> <<>>, message |-> <<>>]
    /\ gps_data = EmptyMap
    /\ date_data = None
    /\ calls = <<>>
    /\ events = <<>>
    /\ seen = <<>>
    /\ outcome = "running"

EngineUnchanged ==
    UNCHANGED <<fs, fs0, unwritable, arg, ret, batch, HEIF_SUPPORTED, source_path, target_paths,
                options, progress_callback, pc, idx, results, gps_data, date_data,
                calls, events, seen, outcome>>

\* ui/main.py:78-106.  libs.extract_gps_coordinates is not among the
\* functions of src/src/libs/main.py: the location label is left as it is
\* (the call raises), shown or hidden.
select_source ==
    /\ \E file_path \in UiSources \cup {<<>>} :
          IF file_path # <<>>
          THEN \E shown \in {ui.location_label, "shown", "hidden"} :
                  ui' = [ui EXCEPT !.source_path = Some(file_path),
                                   !.label = <<"Source: ">> \o file_path,
                                   !.location_label = shown]
          ELSE UNCHANGED ui
    /\ EngineUnchanged

\* ui/main.py:112-125
select_targets ==
    /\ \E file_paths \in UiTargetLists \cup {<<>>} :
          IF file_paths # <<>>
          THEN ui' = [ui EXCEPT !.target_files = file_paths,
                                !.label = <<"Selected ", Str(Len(file_paths)),
                                            " target file(s)">>]
          ELSE UNCHANGED ui
    /\ EngineUnchanged

\* ui/main.py:58-64: the check box of overwrite_gps is ticked or cleared
\* (that of copy_date, ui/main.py:50-56, is left ticked).
Toggle ==
    /\ ui' = [ui EXCEPT !.overwrite_gps_var = ~@]
    /\ EngineUnchanged

\* Mutant: the run button is left as it is.
DisableRun_Noop(u) == u

\* ui/main.py:145
DisableRun(u) == [u EXCEPT !.btn_run = "disabled"]

\* A click on a disabled button does not call its command.
Clickable(u) == u.btn_run # "disabled"

\* ui/main.py:127-158, called by a click on the run button (ui/main.py:73-75).
process_files ==
    IF ui.source_path = None
    THEN /\ ui' = [ui EXCEPT !.label = <<"Error: Please select a source photo first!">>]
         /\ EngineUnchanged
    ELSE IF ui.target_files = <<>>
    THEN /\ ui' = [ui EXCEPT !.label = <<"Error: Please select target photos!">>]
         /\ EngineUnchanged
    ELSE /\ ui' = [DisableRun(ui) EXCEPT
                      !.progress_bar = <<0, 1>>,
                      !.progress_label = <<>>,
                      !.label = <<"Processing ", Str(Len(ui.target_files)), " files...">>,
                      !.thread = "running",
                      !.handled = 0,
                      !.in_flight = @ + 1]
         \* thread.start(): _process_in_background enters the batch call
         \* (ui/main.py:160-172) with the lambda scheduling update_progress
         /\ source_path' = ui.source_path.val
         /\ target_paths' = ui.target_files
         /\ options' = Some([copy_date |-> ui.copy_date_var,
                             overwrite_gps |-> ui.overwrite_gps_var])
         /\ progress_callback' = "ok"
         /\ pc' = "start"
         /\ idx' = 0
         /\ results' = [success_count |-> 0, skipped |-> 0, failed |-> <<>>, message |-> <<>>]
         /\ gps_data' = EmptyMap
         /\ date_data' = None
         /\ fs0' = fs
         /\ calls' = <<>>
         /\ events' = <<>>
         /\ seen' = <<>>
         /\ outcome' = "running"
         /\ UNCHANGED <<fs, unwritable, arg, ret, batch, HEIF_SUPPORTED>>

ClickRun ==
    /\ Clickable(ui)
    /\ process_files

\* ui/main.py:165-172: the background thread inside the batch call.
BackgroundStep ==
    /\ ui.thread = "running"
    /\ Next

\* ui/main.py:174-175: the batch call has returned; _finish_processing is
\* scheduled and the thread ends.
ScheduleFinish ==
    /\ ui.thread = "running"
    /\ pc = "done"
    /\ ui' = [ui EXCEPT !.thread = "finishing"]
    /\ EngineUnchanged

\* ui/main.py:184-188, run by the main loop for the oldest scheduled call.
update_progress ==
    /\ ui.thread # "none"
    /\ ui.handled < Len(calls)
    /\ LET call == calls[ui.handled + 1]
           current == call[1]
           total_ == call[2]
           status == call[3]
       IN  ui' = [ui EXCEPT
                    !.progress_bar = IF total_ > 0 THEN <<current, total_>> ELSE <<0, 1>>,
                    !.progress_label = <<"Processing: ", Str(current), "/", Str(total_), " ">>
                                       \o status,
                    !.handled = @ + 1]
    /\ EngineUnchanged

\* Mutant: the run button is left as it is.
EnableRun_Noop(u) == u

\* ui/main.py:182
EnableRun(u) == [u EXCEPT !.btn_run = "normal"]

\* ui/main.py:177-182, run by the main loop after the calls scheduled before it.
_finish_processing ==
    /\ ui.thread = "finishing"
    /\ ui.handled = Len(calls)
    /\ ui' = [EnableRun(ui) EXCEPT !.label = results.message,
                                   !.progress_bar = <<1, 1>>,
                                   !.progress_label = <<"Complete!">>,
                                   !.thread = "none",
                                   !.in_flight = @ - 1]
    /\ EngineUnchanged

NextUI ==
    \/ select_source \/ select_targets \/ Toggle \/ ClickRun
    \/ BackgroundStep \/ ScheduleFinish \/ update_progress \/ _finish_processing

SpecUI == InitUI /\ [][NextUI]_vars

(***************************************************************************)
(* C33: in the window at most one batch is in flight at any time: from the  *)
(* moment process_files starts the background thread until                  *)
(* _finish_processing runs on the main thread the run button is disabled,   *)
(* and no second background thread is started while one is running.        *)
(***************************************************************************)
C33_OneBatchInFlight ==
    /\ []( /\ ui.in_flight \in {0, 1}
           /\ ui.in_flight = 1 <=> ui.thread # "none"
           /\ ui.thread # "none" => ui.btn_run = "disabled")
    /\ [][ui'.in_flight > ui.in_flight => ui.in_flight = 0 /\ ui.thread = "none"]_vars

C33_Witness ==
    /\ ui.thread = "finishing"
    /\ ui.btn_run = "disabled"
    /\ ui.in_flight = 1
    /\ ui.target_files # target_paths
    /\ results.success_count = 1

(***************************************************************************)
(* The window with its two threads running: the background thread takes     *)
(* its steps and ends, and the main loop runs the calls scheduled with      *)
(* after().  Nothing is assumed of the user.                                *)
(***************************************************************************)
SpecUIFair ==
    /\ InitUI
    /\ [][NextUI]_vars
    /\ WF_vars(BackgroundStep \/ ScheduleFinish)
    /\ WF_vars(update_progress \/ _finish_processing)

\* _finish_processing has just run.
Finished ==
    /\ ui.thread = "none"
    /\ ui.btn_run = "normal"
    /\ ui.label = results.message
    /\ ui.progress_label = <<"Complete!">>

(***************************************************************************)
(* C34: every batch started from the window eventually finishes: whatever   *)
(* the source and targets, _finish_processing is eventually run, the label  *)
(* shows the result message and the run button is enabled again; the        *)
(* button never stays disabled forever.                                     *)
(***************************************************************************)
C34_EventuallyFinished ==
    (ui.btn_run = "disabled" \/ ui.thread # "none") ~> Finished

C34_Witness ==
    /\ Finished
    /\ target_paths = <<PathB, PathA>>
    /\ Len(results.failed) = 1
    /\ results.success_count = 1
    /\ results.message # <<>>

====
